---- MODULE Spec2Model ----
(***************************************************************************)
(* A model of quickbooks_migrator.py (class QuickBooksMigrator): the       *)
(* journal-entry / invoice builders, the entity transformers that feed     *)
(* them, the per-entity save loop, the paginated fetcher, the General      *)
(* Ledger report parser, the account phase and the _migrate driver.        *)
(*                                                                         *)
(* Money is counted in 1/10000 of a currency unit ("pips"); a source       *)
(* amount with two decimals is a multiple of 100 pips.  Exchange rates are *)
(* counted in hundredths (367 is 3.67).  The local store (frappe.db) is a  *)
(* list of documents per doctype; docstatus 0 is a draft, 1 is submitted.  *)
(***************************************************************************)
EXTENDS Integers, Sequences, FiniteSets, TLC

VARIABLES
    accounts,          \* local Account documents (frappe.db, doctype Account)
    journal_entries,   \* local Journal Entry documents
    sales_invoices,    \* local Sales Invoice documents
    purchase_invoices, \* local Purchase Invoice documents
    general_ledger,    \* self.general_ledger: the buckets per (type, id), in order
    loop,              \* the _save_entries / _migrate_entries_from_gl loop in progress
    error_log,         \* what _log_error recorded during the loop in progress
    chart,             \* the account phase: the preprocessed source accounts being saved
    get,               \* the _get call in progress, with the credentials it uses
    report,            \* the General Ledger report being parsed, and self.gl_entries
    fetch,             \* the _migrate_entries call in progress
    run,               \* the _migrate run: its step and the status of the document
    call               \* a call of a line builder: its arguments, and what it returned

vars == <<accounts, journal_entries, sales_invoices, purchase_invoices, general_ledger, loop,
          error_log,
          chart, get, report, fetch, run, call>>

\* What a specification does not use stays at this value.
Unused == "unused"

-----------------------------------------------------------------------------
(* Bounds of the model. *)

\* Longest list of records handed to one _save_entries call.
MaxEntries == 2

-----------------------------------------------------------------------------
(* Small helpers over sequences. *)

Range(s) == {s[i] : i \in 1..Len(s)}

RECURSIVE SumSeq(_)
SumSeq(s) == IF s = <<>> THEN 0 ELSE Head(s) + SumSeq(Tail(s))

Abs(x) == IF x < 0 THEN -x ELSE x

\* All sequences over S of length at most n.
SeqUpTo(S, n) == UNION {[1..k -> S] : k \in 0..n}

NoValue == "None"

\* A cell of an API report holds text: <<>> is the empty text, <<n>> the text
\* of the amount n.  frappe.utils.flt reads the empty text as 0.
flt(value) == IF value = <<>> THEN 0 ELSE value[1]

-----------------------------------------------------------------------------
(* Money.  flt(x, 2) rounds to cents; flt(x) keeps the value. *)

\* x * rate for an amount in pips and a rate in hundredths.
Times(x, rate) == (x * rate) \div 100

\* flt(x, 2): round an amount in pips to a whole number of cents.
Flt2(x) == IF x >= 0 THEN ((x + 50) \div 100) * 100
                     ELSE -(((-x + 50) \div 100) * 100)

-----------------------------------------------------------------------------
(* The local store.  The Journal Entry and Sales Invoice tables are sets   *)
(* of documents; "nth" numbers the documents that share a quickbooks_id in *)
(* the order they were inserted.  The Account table is a list in insertion *)
(* order.                                                                  *)

WithKey(docs, key) == {d \in docs : d.quickbooks_id = key}

\* frappe.db.exists({"doctype": .., "quickbooks_id": key, "company": ..})
Exists(docs, key) == WithKey(docs, key) # {}

\* frappe.get_all(doctype, filters={"quickbooks_id": key, ..}): the matching rows.
GetAll(docs, key) ==
    [i \in 1..Cardinality(WithKey(docs, key)) |-> CHOOSE d \in WithKey(docs, key) : d.nth = i]

\* doc.insert(): one more row of the doctype.
Insert(docs, doc) ==
    docs \cup {[doc EXCEPT !.nth = Cardinality(WithKey(docs, doc.quickbooks_id)) + 1]}

\* The name the store gives a new document of a doctype.
DocName(prefix, quickbooks_id) == prefix \o ":" \o quickbooks_id

\* frappe.get_all("Account", filters={"quickbooks_id": .., "company": ..})
AccountsById(accts, quickbooks_id) ==
    SelectSeq(accts, LAMBDA a : a.quickbooks_id = quickbooks_id)

\* _get_account_name_by_id: the name of the first match; "[0]" raises IndexError
\* on no match, which is reported as the value Unresolved.
Unresolved == "<IndexError>"

_get_account_name_by_id(accts, quickbooks_id) ==
    IF AccountsById(accts, quickbooks_id) = <<>> THEN Unresolved
    ELSE AccountsById(accts, quickbooks_id)[1].name

\* frappe.db.get_value("Account", name, field): None when there is no such account.
AccountByName(accts, name) == SelectSeq(accts, LAMBDA a : a.name = name)

AccountCurrency(accts, name) ==
    IF AccountByName(accts, name) = <<>> THEN NoValue
    ELSE AccountByName(accts, name)[1].account_currency

AccountType(accts, name) ==
    IF AccountByName(accts, name) = <<>> THEN NoValue
    ELSE AccountByName(accts, name)[1].account_type

-----------------------------------------------------------------------------
(* Posting lines ("accounts" of a Journal Entry).  A key a Python dict     *)
(* leaves out is 0 for an amount, NoRate for a rate, NoValue for a name.   *)

Line(account, debit, credit, exchange_rate, party_type, party, reference_type, reference_name) ==
    [account |-> account,
     debit_in_account_currency |-> debit,
     credit_in_account_currency |-> credit,
     exchange_rate |-> exchange_rate,
     party_type |-> party_type,
     party |-> party,
     reference_type |-> reference_type,
     reference_name |-> reference_name]

\* An exchange rate is a fraction num/den; a rate of the source is in hundredths.
\* NoRate is the key "exchange_rate" left out.
Rate(hundredths) == [num |-> hundredths, den |-> 100]
NoRate == [num |-> 0, den |-> 0]

\* amount * acc.get("exchange_rate", 1), in pips (amount * (num/amount) is num).
InCompanyCurrency(amount, rate) ==
    IF rate = NoRate THEN amount
    ELSE IF rate.den = amount THEN rate.num
    ELSE (amount * rate.num) \div rate.den

RECURSIVE TotalDebit(_)
TotalDebit(lines) ==
    IF lines = <<>> THEN 0
    ELSE InCompanyCurrency(Head(lines).debit_in_account_currency, Head(lines).exchange_rate)
         + TotalDebit(Tail(lines))

RECURSIVE TotalCredit(_)
TotalCredit(lines) ==
    IF lines = <<>> THEN 0
    ELSE InCompanyCurrency(Head(lines).credit_in_account_currency, Head(lines).exchange_rate)
         + TotalCredit(Tail(lines))

\* sum(debit * rate) = sum(credit * rate) to 2 decimal places: the totals differ
\* by less than half a cent (50 pips).
Balanced(lines) == Abs(TotalDebit(lines) - TotalCredit(lines)) < 50

-----------------------------------------------------------------------------
(* The state the builders and transformers work on, as one record:         *)
(*   db.accounts, db.journal_entries, db.sales_invoices, db.error_log.     *)
(* A transformer returns [db |-> the store after it, raised |-> whether an *)
(* exception left it].                                                     *)

Returned(db) == [db |-> db, raised |-> FALSE]
Raised(db) == [db |-> db, raised |-> TRUE]

\* _log_error(e, data): one Error Log row, titled alike for every caller.
_log_error(db, what) == [db EXCEPT !.error_log = Append(@, what)]

\* What the storage collaborator answers to insert() and to submit().
StorageAnswers == [insert : {"ok", "raise"}, submit : {"ok", "raise"}]

\* submit() of a Journal Entry: the storage collaborator validates the balance.
SubmitRejectsJE(lines, env) == env.submit = "raise" \/ ~Balanced(lines)

\* What a submitted entry settles of the Sales Invoice named doc_name.
RECURSIVE SettledBy(_, _)
SettledBy(lines, doc_name) ==
    IF lines = <<>> THEN 0
    ELSE (IF Head(lines).reference_type = "Sales Invoice" /\ Head(lines).reference_name = doc_name
          THEN Head(lines).credit_in_account_currency - Head(lines).debit_in_account_currency
          ELSE 0) + SettledBy(Tail(lines), doc_name)

\* The storage collaborator, on submit of an entry that references invoices:
\* each referenced Sales Invoice has its outstanding amount reduced.
OnSubmitJE(sales, lines) ==
    {[d EXCEPT !.outstanding_amount = @ - SettledBy(lines, d.name)] : d \in sales}

\* What a submitted entry pays of the Purchase Invoice named doc_name.
RECURSIVE PaidBy(_, _)
PaidBy(lines, doc_name) ==
    IF lines = <<>> THEN 0
    ELSE (IF Head(lines).reference_type = "Purchase Invoice"
             /\ Head(lines).reference_name = doc_name
          THEN Head(lines).debit_in_account_currency - Head(lines).credit_in_account_currency
          ELSE 0) + PaidBy(Tail(lines), doc_name)

\* Likewise for the Purchase Invoices an entry references.
OnSubmitJEOfBills(purchases, lines) ==
    {[d EXCEPT !.outstanding_amount = @ - PaidBy(lines, d.name)] : d \in purchases}

\* __save_journal_entry as it would be without the frappe.db.exists guard.
BuildWithoutExistsCheck(db, quickbooks_id, lines, posting_date, env) ==
    LET je == [quickbooks_id |-> quickbooks_id, name |-> DocName("JV", quickbooks_id),
               nth |-> 0, docstatus |-> 0, posting_date |-> posting_date, accounts |-> lines]
    IN IF env.insert = "raise" THEN _log_error(db, quickbooks_id)
       ELSE IF SubmitRejectsJE(lines, env)
       THEN _log_error([db EXCEPT !.journal_entries = Insert(@, je)], quickbooks_id)
       ELSE [db EXCEPT !.journal_entries = Insert(@, [je EXCEPT !.docstatus = 1]),
                       !.sales_invoices = OnSubmitJE(@, lines),
                                 !.purchase_invoices = OnSubmitJEOfBills(@, lines)]

\* __save_journal_entry(quickbooks_id, accounts, posting_date)
__save_journal_entry(db, quickbooks_id, lines, posting_date, env) ==
    IF Exists(db.journal_entries, quickbooks_id) THEN db
    ELSE LET je == [quickbooks_id |-> quickbooks_id,
                    name |-> DocName("JV", quickbooks_id),
                    nth |-> 0,
                    docstatus |-> 0,
                    posting_date |-> posting_date, accounts |-> lines]
         IN IF env.insert = "raise"
            THEN _log_error(db, quickbooks_id)
            ELSE IF SubmitRejectsJE(lines, env)
                 THEN _log_error([db EXCEPT !.journal_entries = Insert(@, je)], quickbooks_id)
                 ELSE [db EXCEPT !.journal_entries = Insert(@, [je EXCEPT !.docstatus = 1]),
                                 !.sales_invoices = OnSubmitJE(@, lines),
                                 !.purchase_invoices = OnSubmitJEOfBills(@, lines)]

-----------------------------------------------------------------------------
(* Names.  An entity display name is its list of ':'-separated segments.   *)

RECURSIVE JoinColon(_)
JoinColon(segs) ==
    IF segs = <<>> THEN ""
    ELSE IF Len(segs) = 1 THEN segs[1]
    ELSE segs[1] \o ":" \o JoinColon(Tail(segs))

\* match = re.match(r"^(.*):", party); party = match.group(1) if match.
\* ".*" is greedy: the match ends at the last ':' of the name.
StripParty(segs) ==
    IF Len(segs) >= 2 THEN JoinColon(SubSeq(segs, 1, Len(segs) - 1))
    ELSE JoinColon(segs)

\* "<HumanKind> - <ExternalId>"
FormatKey(kind, id) == kind \o " - " \o id

-----------------------------------------------------------------------------
(* _save_journal_entry: the JournalEntry transformer. *)

NoEntity == [Type |-> NoValue, name |-> <<>>]

\* frappe.get_all("Account", filters=[["account_type", "in", ["Payable", "Receivable"]]], pluck="name")
PartyAccountNames(accts) ==
    {accts[i].name : i \in {j \in 1..Len(accts) : accts[j].account_type \in {"Payable", "Receivable"}}}

\* frappe.get_all("Account", filters={"account_type": "Tax", "tax_rate": percent, ..})
TaxAccounts(accts, percent) ==
    SelectSeq(accts, LAMBDA a : a.account_type = "Tax" /\ a.tax_rate = percent)

\* One JournalEntryLineDetail line as a posting line.
JELine(accts, line, trans_currency, exchange_rate) ==
    LET account_name == _get_account_name_by_id(accts, line.AccountRef)
        same == AccountCurrency(accts, account_name) = trans_currency
        line_exchange_rate == IF same THEN Rate(exchange_rate) ELSE Rate(100)
        line_amount == IF same THEN line.Amount ELSE Times(line.Amount, exchange_rate)
        has_party == account_name \in PartyAccountNames(accts) /\ line.Entity # NoEntity
        party_type == IF ~has_party THEN NoValue
                      ELSE IF line.Entity.Type = "Vendor" THEN "Supplier"
                      ELSE IF line.Entity.Type = "Customer" THEN "Customer"
                      ELSE NoValue
        party == IF has_party THEN StripParty(line.Entity.name) ELSE NoValue
    IN Line(account_name,
            IF line.PostingType = "Debit" THEN line_amount ELSE 0,
            IF line.PostingType = "Credit" THEN line_amount ELSE 0,
            line_exchange_rate, party_type, party, NoValue, NoValue)

\* _get_je_accounts(lines, trans_currency, exchange_rate); raised when an
\* AccountRef has no local account.
RECURSIVE _get_je_accounts(_, _, _, _)
_get_je_accounts(accts, lines, trans_currency, exchange_rate) ==
    IF lines = <<>> THEN [raised |-> FALSE, accounts |-> <<>>]
    ELSE LET line == Head(lines)
             rest == _get_je_accounts(accts, Tail(lines), trans_currency, exchange_rate)
         IN IF line.DetailType # "JournalEntryLineDetail" THEN rest
            ELSE IF _get_account_name_by_id(accts, line.AccountRef) = Unresolved
                 THEN [raised |-> TRUE, accounts |-> <<>>]
            ELSE IF rest.raised THEN rest
            ELSE [raised |-> FALSE,
                  accounts |-> <<JELine(accts, line, trans_currency, exchange_rate)>> \o rest.accounts]

\* The TxnTaxDetail.TaxLine postings of a JournalEntry: a debit of the raw amount.
RECURSIVE JETaxLines(_, _)
JETaxLines(accts, tax_lines) ==
    IF tax_lines = <<>> THEN [raised |-> FALSE, accounts |-> <<>>]
    ELSE LET line == Head(tax_lines)
             rest == JETaxLines(accts, Tail(tax_lines))
         IN IF line.Amount = 0 THEN rest
            ELSE IF TaxAccounts(accts, line.TaxPercent) = <<>>
                 THEN [raised |-> TRUE, accounts |-> <<>>]
            ELSE IF rest.raised THEN rest
            ELSE [raised |-> FALSE,
                  accounts |-> <<Line(TaxAccounts(accts, line.TaxPercent)[1].name,
                                      line.Amount, 0, NoRate, NoValue, NoValue, NoValue, NoValue)>>
                               \o rest.accounts]

\* _save_journal_entry(journal_entry): no try block around the line building.
_save_journal_entry(db, journal_entry, env) ==
    LET quickbooks_id == FormatKey("Journal Entry", journal_entry.Id)
        own == _get_je_accounts(db.accounts, journal_entry.Line,
                                journal_entry.CurrencyRef, journal_entry.ExchangeRate)
        tax == JETaxLines(db.accounts, journal_entry.TaxLine)
    IN IF own.raised \/ tax.raised THEN Raised(db)
       ELSE Returned(__save_journal_entry(db, quickbooks_id, own.accounts \o tax.accounts,
                                          journal_entry.TxnDate, env))

-----------------------------------------------------------------------------
(* __save_ledger_entry_as_je: a Journal Entry from the General Ledger      *)
(* lines of one (transaction type, transaction id).                        *)

\* accounts_map, the static rename table (the rows the model's ledger uses).
accounts_map ==
    [name \in {"Cash on hand - QB - NX", "Accounts Receivable (A/R) - USD - QB - NX",
               "Bank charges - QB - NX", "Exchange Gain or Loss - QB - NX"} |->
        CASE name = "Cash on hand - QB - NX" -> "Cash - NX"
          [] name = "Accounts Receivable (A/R) - USD - QB - NX" -> "Debtors USD - NX"
          [] name = "Bank charges - QB - NX" -> "Bank charges - NX"
          [] name = "Exchange Gain or Loss - QB - NX" -> "Exchange Gain/Loss - NX"]

\* get_company_currency(self.company)
company_currency == "AED"

AccountNamesOfType(accts, account_type) ==
    {accts[i].name : i \in {j \in 1..Len(accts) : accts[j].account_type = account_type}}

\* The zero-amount filter of the loop over ledger_entry["lines"].
GLLineIsZero(line) ==
    /\ line.credit = 0 /\ line.debit = 0
    /\ flt(line.credit_home_amt) = 0 /\ flt(line.debt_home_amt) = 0

GLAmountType(line) ==
    IF line.credit # 0 \/ line.debit # 0
    THEN (IF line.credit # 0 THEN "credit" ELSE "debit")
    ELSE (IF flt(line.credit_home_amt) # 0 THEN "credit" ELSE "debit")

\* The amount of one ledger line in the currency of its account.
GLAmount(accts, line) ==
    LET amount_type == GLAmountType(line)
        own == IF amount_type = "credit" THEN line.credit ELSE line.debit
        home == IF amount_type = "credit" THEN flt(line.credit_home_amt)
                ELSE flt(line.debt_home_amt)
    IN IF line.currency = AccountCurrency(accts, line.account)
       THEN (IF own # 0 THEN own ELSE home)
       ELSE home

\* One ledger line as a posting line, before the exchange rates are set.
GLLine(accts, line) ==
    LET is_supplier == line.vendor # <<>> /\ line.account \in AccountNamesOfType(accts, "Payable")
        is_customer == ~is_supplier /\ line.customer # <<>>
                       /\ line.account \in AccountNamesOfType(accts, "Receivable")
        amount == GLAmount(accts, line)
    IN Line(accounts_map[line.account],
            IF GLAmountType(line) = "debit" THEN amount ELSE 0,
            IF GLAmountType(line) = "credit" THEN amount ELSE 0,
            NoRate,
            IF is_supplier THEN "Supplier" ELSE IF is_customer THEN "Customer" ELSE NoValue,
            IF is_supplier THEN StripParty(line.vendor)
            ELSE IF is_customer THEN StripParty(line.customer) ELSE NoValue,
            NoValue, NoValue)

GLKept(lines) == SelectSeq(lines, LAMBDA line : ~GLLineIsZero(line))

\* total_debit_company_currency - total_credit_company_currency over the lines
\* whose account is in the company currency.
RECURSIVE GLCompanyDifference(_, _)
GLCompanyDifference(accts, lines) ==
    IF lines = <<>> THEN 0
    ELSE LET line == Head(lines)
             signed == IF GLAmountType(line) = "debit" THEN GLAmount(accts, line)
                       ELSE -GLAmount(accts, line)
         IN (IF company_currency = AccountCurrency(accts, line.account) THEN signed ELSE 0)
            + GLCompanyDifference(accts, Tail(lines))

GLLineAmount(l) ==
    IF l.credit_in_account_currency # 0 THEN l.credit_in_account_currency
    ELSE l.debit_in_account_currency

\* The second loop: a line on a foreign-currency account gets the rate
\* abs(total_debit - total_credit) / amount.
GLWithRate(accts, l, difference) ==
    IF company_currency # AccountCurrency(accts, l.account)
    THEN [l EXCEPT !.exchange_rate = [num |-> Abs(difference), den |-> GLLineAmount(l)]]
    ELSE l

\* Whether the try block raises: a ledger account outside accounts_map
\* (KeyError), or a division by a zero amount.
GLRaises(accts, lines) ==
    \/ \E i \in 1..Len(GLKept(lines)) : GLKept(lines)[i].account \notin DOMAIN accounts_map
    \/ \E i \in 1..Len(GLKept(lines)) :
          /\ company_currency # AccountCurrency(accts, accounts_map[GLKept(lines)[i].account])
          /\ GLAmount(accts, GLKept(lines)[i]) = 0

GLAccounts(accts, lines) ==
    LET kept == GLKept(lines)
        difference == GLCompanyDifference(accts, kept)
    IN [i \in 1..Len(kept) |-> GLWithRate(accts, GLLine(accts, kept[i]), difference)]

__save_ledger_entry_as_je(db, ledger_entry, quickbooks_id, env) ==
    IF GLRaises(db.accounts, ledger_entry.lines)
    THEN _log_error(db, quickbooks_id)
    ELSE IF GLAccounts(db.accounts, ledger_entry.lines) = <<>> THEN db
    ELSE __save_journal_entry(db, quickbooks_id, GLAccounts(db.accounts, ledger_entry.lines),
                              ledger_entry.date, env)

\* The key with the ledger kind as it is, "Bill Payment (Cheque)" included.
EntityKeyVerbatim(entity_type, id) == FormatKey(entity_type, id)

\* The quickbooks_id _save_entity_as_je computes for an entry of a ledger kind.
EntityKey(entity_type, id) ==
    IF entity_type = "Bill Payment (Cheque)" THEN FormatKey("BillPayment", id)
    ELSE FormatKey(entity_type, id)

\* _save_entity_as_je(entity_type, entity)
_save_entity_as_je(db, entity_type, entity, env) ==
    Returned(__save_ledger_entry_as_je(db, entity, EntityKey(entity_type, entity.id), env))

-----------------------------------------------------------------------------
(* Taxes of an invoice: _get_taxes and the tax-code tables behind it.      *)
(* db.tax_codes is self.tax_codes in insertion order; a rate list a tax    *)
(* code leaves out is the empty list.                                      *)

\* The TaxRateDetail lists in the order the loops visit them: per tax code,
\* SalesTaxRateList then PurchaseTaxRateList.
RECURSIVE RateLists(_)
RateLists(tax_codes) ==
    IF tax_codes = <<>> THEN <<>>
    ELSE <<Head(tax_codes).SalesTaxRateList, Head(tax_codes).PurchaseTaxRateList>>
         \o RateLists(Tail(tax_codes))

RECURSIVE Flatten(_)
Flatten(lists) == IF lists = <<>> THEN <<>> ELSE Head(lists) \o Flatten(Tail(lists))

\* _get_tax_type(tax_rate): TaxTypeApplicable of the first detail of that rate.
_get_tax_type(tax_codes, tax_rate) ==
    LET hits == SelectSeq(Flatten(RateLists(tax_codes)), LAMBDA d : d.TaxRateRef = tax_rate)
    IN IF hits = <<>> THEN NoValue ELSE hits[1].TaxTypeApplicable

\* The last TaxOnTaxOrder a list gives for the rate, or the one carried in.
RECURSIVE ParentOrder(_, _, _)
ParentOrder(details, tax_rate, parent) ==
    IF details = <<>> THEN parent
    ELSE ParentOrder(Tail(details), tax_rate,
                     IF Head(details).TaxRateRef = tax_rate
                     THEN Head(details).TaxOnTaxOrder ELSE parent)

\* _get_parent_tax_rate(tax_rate): "parent" lives on from one list to the next.
RECURSIVE ParentTaxRateFrom(_, _, _)
ParentTaxRateFrom(lists, tax_rate, parent) ==
    IF lists = <<>> THEN NoValue
    ELSE LET now == ParentOrder(Head(lists), tax_rate, parent)
             hits == SelectSeq(Head(lists), LAMBDA d : d.TaxOrder = now)
         IN IF now # 0 /\ hits # <<>> THEN hits[1].TaxRateRef
            ELSE ParentTaxRateFrom(Tail(lists), tax_rate, now)

_get_parent_tax_rate(tax_codes, tax_rate) ==
    ParentTaxRateFrom(RateLists(tax_codes), tax_rate, 0)

\* _get_parent_row_id(tax_rate, taxes): index + 1 of the first emitted row on the
\* parent's account, 0 for None; Unresolved when the account lookup raises.
FirstRowOn(taxes, account_head) ==
    IF \E i \in 1..Len(taxes) : taxes[i].account_head = account_head
    THEN CHOOSE i \in 1..Len(taxes) :
            /\ taxes[i].account_head = account_head
            /\ \A j \in 1..(i - 1) : taxes[j].account_head # account_head
    ELSE 0

_get_parent_row_id(accts, tax_rate, taxes) ==
    FirstRowOn(taxes, _get_account_name_by_id(accts, FormatKey("TaxRate", tax_rate)))

TaxRow(charge_type, row_id, account_head, rate) ==
    [charge_type |-> charge_type, row_id |-> row_id, account_head |-> account_head, rate |-> rate]

\* The loop of _get_taxes over entry["TxnTaxDetail"]["TaxLine"], given the rows
\* emitted so far.
RECURSIVE TaxesFrom(_, _, _, _)
TaxesFrom(accts, tax_codes, tax_lines, taxes) ==
    IF tax_lines = <<>> THEN [raised |-> FALSE, taxes |-> taxes]
    ELSE LET line == Head(tax_lines)
             heads == TaxAccounts(accts, line.TaxPercent)
             parent == _get_parent_tax_rate(tax_codes, line.TaxRateRef)
         IN IF heads = <<>> THEN [raised |-> TRUE, taxes |-> taxes]
            ELSE IF _get_tax_type(tax_codes, line.TaxRateRef) = "TaxOnAmount"
            THEN TaxesFrom(accts, tax_codes, Tail(tax_lines),
                           Append(taxes, TaxRow("On Net Total", 0, heads[1].name, line.TaxPercent)))
            ELSE IF _get_account_name_by_id(accts, FormatKey("TaxRate", parent)) = Unresolved
            THEN [raised |-> TRUE, taxes |-> taxes]
            ELSE TaxesFrom(accts, tax_codes, Tail(tax_lines),
                           Append(taxes, TaxRow("On Previous Row Amount",
                                                _get_parent_row_id(accts, parent, taxes),
                                                heads[1].name, line.TaxPercent)))

_get_taxes(accts, tax_codes, entry) == TaxesFrom(accts, tax_codes, entry.TaxLine, <<>>)

\* _get_item_taxes(tax_code) raises when the tax code, one of its TaxOnAmount
\* rates or the account of such a rate is unknown.
ItemTaxesRaise(accts, tax_codes, tax_code) ==
    /\ tax_code # "NON"
    /\ \/ SelectSeq(tax_codes, LAMBDA c : c.Id = tax_code) = <<>>
       \/ LET code == SelectSeq(tax_codes, LAMBDA c : c.Id = tax_code)[1]
              details == code.SalesTaxRateList \o code.PurchaseTaxRateList
          IN \E i \in 1..Len(details) :
                /\ details[i].TaxTypeApplicable = "TaxOnAmount"
                /\ _get_account_name_by_id(accts, FormatKey("TaxRate", details[i].TaxRateRef))
                     = Unresolved

-----------------------------------------------------------------------------
(* _get_si_items: the item lines of a sales-side document. *)

ItemsByName(items, name) == SelectSeq(items, LAMBDA it : it.name = name)

SILineTaxCode(invoice, line) ==
    IF line.TaxCodeRef # "TAX" THEN line.TaxCodeRef
    ELSE IF invoice.TxnTaxCodeRef # NoValue THEN invoice.TxnTaxCodeRef
    ELSE "NON"

ItemLine(item_code, item_name, qty, price_list_rate, income_account, margin) ==
    [item_code |-> item_code, item_name |-> item_name, qty |-> qty,
     price_list_rate |-> price_list_rate, income_account |-> income_account,
     margin_rate_or_amount |-> margin]

Negated(item) == [item EXCEPT !.qty = -@]

\* The loop of _get_si_items over invoice["Line"], given the items so far.
RECURSIVE SIItemsFrom(_, _, _, _, _)
SIItemsFrom(db, invoice, lines, is_return, items) ==
    IF lines = <<>> THEN [raised |-> FALSE, items |-> items]
    ELSE LET line == Head(lines)
             next(its) == SIItemsFrom(db, invoice, Tail(lines), is_return, its)
             failed == [raised |-> TRUE, items |-> items]
             tax_code == SILineTaxCode(invoice, line)
             found == ItemsByName(db.items, line.ItemRef.name)
             sign(item) == IF is_return THEN Negated(item) ELSE item
         IN IF line.DetailType = "SalesItemLineDetail"
            THEN IF line.Qty = 0 THEN next(items)
                 ELSE IF line.ItemRef.value # "SHIPPING_ITEM_ID"
                 THEN IF found = <<>> \/ ItemTaxesRaise(db.accounts, db.tax_codes, tax_code)
                      THEN failed
                      ELSE next(Append(items, sign(ItemLine(found[1].name, NoValue, line.Qty,
                                                            line.UnitPrice, NoValue, 0))))
                 ELSE IF \/ _get_account_name_by_id(db.accounts,
                                FormatKey("TaxRate", line.TaxCodeRef)) = Unresolved
                         \/ ItemTaxesRaise(db.accounts, db.tax_codes, tax_code)
                      THEN failed
                      ELSE next(Append(items, sign(ItemLine(NoValue, "Shipping", 1, line.Amount,
                                                            db.default_shipping_account, 0))))
            ELSE IF line.DetailType = "DescriptionOnly"
            THEN IF items = <<>> THEN failed
                 ELSE next([items EXCEPT ![Len(items)].margin_rate_or_amount = line.Margin])
            ELSE next(items)

_get_si_items(db, invoice, is_return) == SIItemsFrom(db, invoice, invoice.Line, is_return, <<>>)

-----------------------------------------------------------------------------
(* _save_invoice and the two documents an Invoice can become. *)

\* frappe.get_all("Customer", filters={"quickbooks_id": .., "company": ..})
CustomersById(customers, quickbooks_id) ==
    SelectSeq(customers, LAMBDA c : c.quickbooks_id = quickbooks_id)

RECURSIVE NetTotal(_)
NetTotal(items) ==
    IF items = <<>> THEN 0
    ELSE Head(items).qty * Head(items).price_list_rate + NetTotal(Tail(items))

\* _get_invoice_payments(invoice, is_return, is_pos) raises when the deposit
\* account of a point-of-sale document has no local account.
InvoicePaymentsRaise(db, invoice, is_pos) ==
    is_pos /\ _get_account_name_by_id(db.accounts, invoice.DepositToAccountRef) = Unresolved

\* _save_sales_invoice(invoice, quickbooks_id, is_return, is_pos).  The except
\* block reads invoice_doc, which is bound only once frappe.get_doc has run: an
\* exception while invoice_dict is built leaves the transformer.
_save_sales_invoice(db, invoice, quickbooks_id, is_return, is_pos, env) ==
    IF Exists(db.sales_invoices, quickbooks_id) THEN Returned(db)
    ELSE LET customer == CustomersById(db.customers, invoice.CustomerRef)
             items == _get_si_items(db, invoice, is_return)
             taxes == _get_taxes(db.accounts, db.tax_codes, invoice)
             doc == [quickbooks_id |-> quickbooks_id,
                     name |-> DocName("SINV", quickbooks_id),
                     nth |-> 0,
                     docstatus |-> 0,
                     customer |-> customer[1].name,
                     debit_to |-> customer[1].account,
                     currency |-> invoice.CurrencyRef,
                     conversion_rate |-> invoice.ExchangeRate,
                     items |-> items.items,
                     taxes |-> taxes.taxes,
                     is_return |-> is_return,
                     is_pos |-> is_pos,
                     grand_total |-> NetTotal(items.items),
                     outstanding_amount |-> NetTotal(items.items)]
         IN IF \/ customer = <<>>
               \/ items.raised
               \/ taxes.raised
               \/ InvoicePaymentsRaise(db, invoice, is_pos)
            THEN Raised(db)
            ELSE IF env.insert = "raise"
            THEN Returned(_log_error(db, quickbooks_id))
            ELSE IF env.submit = "raise"
            THEN Returned(_log_error([db EXCEPT !.sales_invoices = Insert(@, doc)], quickbooks_id))
            ELSE Returned([db EXCEPT !.sales_invoices = Insert(@, [doc EXCEPT !.docstatus = 1])])

\* self.general_ledger[type][id]: the bucket of one transaction, if any.
LedgerBuckets(ledger, type, id) ==
    SelectSeq(ledger, LAMBDA b : b.type = type /\ b.id = id)

\* One General Ledger line of an invoice as a posting line.
InvoiceJELine(accts, line, party) ==
    Line(line.account,
         IF line.debit # 0 THEN line.debit ELSE 0,
         IF line.debit = 0 /\ line.credit # 0 THEN line.credit ELSE 0,
         NoRate,
         IF AccountType(accts, line.account) = "Receivable" THEN "Customer" ELSE NoValue,
         IF AccountType(accts, line.account) = "Receivable" THEN party ELSE NoValue,
         NoValue, NoValue)

\* _save_invoice_as_journal_entry(invoice, quickbooks_id)
_save_invoice_as_journal_entry(db, invoice, quickbooks_id, env) ==
    LET bucket == LedgerBuckets(db.general_ledger, "Invoice", invoice.Id)
        customer == CustomersById(db.customers, invoice.CustomerRef)
        lines == bucket[1].lines
        needs_party == \E i \in 1..Len(lines) :
                          AccountType(db.accounts, lines[i].account) = "Receivable"
    IN IF bucket = <<>> THEN Returned(_log_error(db, quickbooks_id))
       ELSE IF needs_party /\ customer = <<>> THEN Returned(_log_error(db, quickbooks_id))
       ELSE Returned(__save_journal_entry(db, quickbooks_id,
                [i \in 1..Len(lines) |->
                    InvoiceJELine(db.accounts, lines[i],
                                  IF customer = <<>> THEN NoValue ELSE customer[1].name)],
                invoice.TxnDate, env))

\* _save_invoice without the test on LinkedTxn: every Invoice takes the Sales
\* Invoice path.
SaveEveryInvoiceAsSalesInvoice(db, invoice, env) ==
    _save_sales_invoice(db, invoice, FormatKey("Invoice", invoice.Id), FALSE, FALSE, env)

\* _save_invoice(invoice)
_save_invoice(db, invoice, env) ==
    LET quickbooks_id == FormatKey("Invoice", invoice.Id)
    IN IF \E i \in 1..Len(invoice.LinkedTxn) :
             invoice.LinkedTxn[i].TxnType \in {"StatementCharge", "ReimburseCharge"}
       THEN _save_invoice_as_journal_entry(db, invoice, quickbooks_id, env)
       ELSE _save_sales_invoice(db, invoice, quickbooks_id, FALSE, FALSE, env)

-----------------------------------------------------------------------------
(* _save_payment: the Payment transformer. *)

\* Whether the loop body raises on a line linked to an Invoice: no Sales Invoice
\* to read outstanding_amount from ("[0]" on an empty list), or a Journal Entry
\* with that key and no Customer line (next() on an empty filter).
PaymentLineRaises(db, si_quickbooks_id) ==
    \/ GetAll(db.sales_invoices, si_quickbooks_id) = <<>>
    \/ /\ Exists(db.journal_entries, si_quickbooks_id)
       /\ SelectSeq(GetAll(db.journal_entries, si_quickbooks_id)[1].accounts,
                    LAMBDA acc : acc.party_type = "Customer") = <<>>

\* reference_type, reference_name, party and party_account of an invoice line:
\* the Journal Entry with the key, when there is one, else the Sales Invoice.
PaymentReference(db, si_quickbooks_id) ==
    IF Exists(db.journal_entries, si_quickbooks_id)
    THEN LET journal_entry == GetAll(db.journal_entries, si_quickbooks_id)[1]
             customer_account_line ==
                 SelectSeq(journal_entry.accounts, LAMBDA acc : acc.party_type = "Customer")[1]
         IN [reference_type |-> "Journal Entry", reference_name |-> journal_entry.name,
             party |-> customer_account_line.party,
             party_account |-> customer_account_line.account]
    ELSE LET sales_invoice == GetAll(db.sales_invoices, si_quickbooks_id)[1]
         IN [reference_type |-> "Sales Invoice", reference_name |-> sales_invoice.name,
             party |-> sales_invoice.customer, party_account |-> sales_invoice.debit_to]

\* The line amount as it is, whatever is outstanding.
Uncapped(line_amount, outstanding_amount) == line_amount

\* if line_amount > outstanding_amount: line_amount = outstanding_amount
Capped(line_amount, outstanding_amount) ==
    IF line_amount > outstanding_amount THEN outstanding_amount ELSE line_amount

\* The credit line of one payment line linked to an Invoice.
PaymentCreditLine(db, payment, line) ==
    LET si_quickbooks_id == FormatKey("Invoice", line.LinkedTxn[1].TxnId)
        ref == PaymentReference(db, si_quickbooks_id)
        outstanding_amount == GetAll(db.sales_invoices, si_quickbooks_id)[1].outstanding_amount
        line_amount == Capped(line.Amount, outstanding_amount)
        same == AccountCurrency(db.accounts, ref.party_account) = payment.CurrencyRef
    IN Line(ref.party_account, 0,
            Flt2(Times(line_amount, IF same THEN 100 ELSE payment.ExchangeRate)),
            IF same THEN Rate(payment.ExchangeRate) ELSE Rate(100),
            "Customer", ref.party, ref.reference_type, ref.reference_name)

RECURSIVE PaymentCreditLines(_, _, _)
PaymentCreditLines(db, payment, lines) ==
    IF lines = <<>> THEN [raised |-> FALSE, accounts |-> <<>>, invoices |-> 0]
    ELSE LET line == Head(lines)
             rest == PaymentCreditLines(db, payment, Tail(lines))
             failed == [raised |-> TRUE, accounts |-> <<>>, invoices |-> 0]
         IN IF line.LinkedTxn = <<>> THEN failed
            ELSE IF line.LinkedTxn[1].TxnType # "Invoice" THEN rest
            ELSE IF PaymentLineRaises(db, FormatKey("Invoice", line.LinkedTxn[1].TxnId))
            THEN failed
            ELSE IF rest.raised THEN rest
            ELSE [raised |-> FALSE,
                  accounts |-> <<PaymentCreditLine(db, payment, line)>> \o rest.accounts,
                  invoices |-> rest.invoices + 1]

\* The debit line on the deposit account.
PaymentDebitLine(db, payment) ==
    LET deposit_account == _get_account_name_by_id(db.accounts, payment.DepositToAccountRef)
        same == AccountCurrency(db.accounts, deposit_account) = payment.CurrencyRef
    IN Line(deposit_account,
            Flt2(Times(payment.TotalAmt, IF same THEN 100 ELSE payment.ExchangeRate)), 0,
            IF same THEN Rate(payment.ExchangeRate) ELSE Rate(100),
            NoValue, NoValue, NoValue, NoValue)

\* The "Exchange Gain or Loss" lines the General Ledger has for the transaction.
ExchangeGainLines(accts, gl_lines) ==
    LET hits == SelectSeq(gl_lines, LAMBDA l : l.account = "Exchange Gain or Loss - QB - NX")
    IN [i \in 1..Len(hits) |->
           Line(_get_account_name_by_id(accts, "95"),
                Flt2(flt(hits[i].debt_home_amt)), Flt2(flt(hits[i].credit_home_amt)),
                NoRate, NoValue, NoValue, NoValue, NoValue)]

\* _save_payment after its test on DepositToAccountRef: the lines, and the
\* builder.  Everything is inside the try block, and the except block reads
\* only names that are bound.
PaymentEntry(db, payment, env) ==
    LET quickbooks_id == FormatKey("Payment", payment.Id)
        credits == PaymentCreditLines(db, payment, payment.Line)
        bucket == LedgerBuckets(db.general_ledger, "Payment", payment.Id)
        gains == SelectSeq(bucket[1].lines,
                           LAMBDA l : l.account = "Exchange Gain or Loss - QB - NX")
    IN IF \/ credits.raised
          \/ _get_account_name_by_id(db.accounts, payment.DepositToAccountRef) = Unresolved
          \/ credits.invoices = 0
          \/ bucket = <<>>
          \/ (gains # <<>> /\ _get_account_name_by_id(db.accounts, "95") = Unresolved)
       THEN Returned(_log_error(db, quickbooks_id))
       ELSE Returned(__save_journal_entry(db, quickbooks_id,
                credits.accounts \o <<PaymentDebitLine(db, payment)>>
                    \o ExchangeGainLines(db.accounts, bucket[1].lines),
                payment.TxnDate, env))

\* _save_payment without its test on DepositToAccountRef.
SavePaymentWhateverDeposit(db, payment, env) == PaymentEntry(db, payment, env)

\* _save_payment(payment): a payment without DepositToAccountRef affects no
\* account, and the function returns at once.
_save_payment(db, payment, env) ==
    IF payment.DepositToAccountRef = NoValue THEN Returned(db)
    ELSE PaymentEntry(db, payment, env)

-----------------------------------------------------------------------------
(* _save_bill_payment: the BillPayment transformer.  reference_type,       *)
(* reference_name, party and party_account are function-level names: a     *)
(* line that binds none of them reads what an earlier line bound, and      *)
(* raises NameError when none did.                                         *)

Unbound == [bound |-> FALSE, reference_type |-> NoValue, reference_name |-> NoValue,
            party |-> NoValue, party_account |-> NoValue]

\* What a line linked to a Bill binds when the Purchase Invoice exists.
BillReference(db, pi_quickbooks_id) ==
    LET purchase_invoice == GetAll(db.purchase_invoices, pi_quickbooks_id)[1]
    IN [bound |-> TRUE, reference_type |-> "Purchase Invoice",
        reference_name |-> purchase_invoice.name,
        party |-> purchase_invoice.supplier, party_account |-> purchase_invoice.credit_to]

\* What a line linked to another transaction binds when its Journal Entry exists.
SupplierReference(db, je_quickbooks_id) ==
    LET journal_entry == GetAll(db.journal_entries, je_quickbooks_id)[1]
        supplier_account_line ==
            SelectSeq(journal_entry.accounts, LAMBDA acc : acc.party_type = "Supplier")[1]
    IN [bound |-> TRUE, reference_type |-> "Journal Entry",
        reference_name |-> journal_entry.name,
        party |-> supplier_account_line.party, party_account |-> supplier_account_line.account]

\* The debit line of a line linked to a Bill: the amount capped at the
\* outstanding amount, converted with the invoice's conversion rate when the
\* party account is not in the payment's currency.
BillDebitLine(db, bill_payment, line, ref) ==
    LET pi_quickbooks_id == FormatKey("Bill", line.LinkedTxn[1].TxnId)
        purchase_invoice == GetAll(db.purchase_invoices, pi_quickbooks_id)[1]
        conversion_rate == IF purchase_invoice.conversion_rate = 0 THEN 100
                           ELSE purchase_invoice.conversion_rate
        line_amount == Capped(line.Amount, purchase_invoice.outstanding_amount)
        same == AccountCurrency(db.accounts, ref.party_account) = bill_payment.CurrencyRef
    IN Line(ref.party_account,
            Flt2(Times(line_amount, IF same THEN 100 ELSE conversion_rate)), 0,
            NoRate, "Supplier", ref.party, ref.reference_type, ref.reference_name)

\* "for line in bill_payment["Line"]" from the state st = [raised, accounts, ref].
RECURSIVE BillPaymentLines(_, _, _, _)
BillPaymentLines(db, bill_payment, lines, st) ==
    IF st.raised \/ lines = <<>> THEN st
    ELSE LET line == Head(lines)
             failed == [st EXCEPT !.raised = TRUE]
             id == line.LinkedTxn[1].TxnId
             je_quickbooks_id == FormatKey(line.LinkedTxn[1].TxnType, id)
             ref == IF line.LinkedTxn[1].TxnType = "Bill"
                    THEN (IF Exists(db.purchase_invoices, FormatKey("Bill", id))
                          THEN BillReference(db, FormatKey("Bill", id)) ELSE st.ref)
                    ELSE (IF Exists(db.journal_entries, je_quickbooks_id)
                          THEN SupplierReference(db, je_quickbooks_id) ELSE st.ref)
             next == IF line.LinkedTxn[1].TxnType = "Bill"
                     THEN [st EXCEPT !.ref = ref,
                                     !.accounts = Append(@, BillDebitLine(db, bill_payment,
                                                                          line, ref))]
                     ELSE [st EXCEPT !.ref = ref,
                                     !.accounts = Append(@, Line(ref.party_account, line.Amount,
                                                    0, NoRate, "Supplier", ref.party,
                                                    ref.reference_type, ref.reference_name))]
         IN IF line.LinkedTxn = <<>> THEN failed
            ELSE IF /\ line.LinkedTxn[1].TxnType = "Bill"
                    /\ GetAll(db.purchase_invoices, FormatKey("Bill", id)) = <<>>
            THEN failed
            ELSE IF /\ line.LinkedTxn[1].TxnType # "Bill"
                    /\ Exists(db.journal_entries, je_quickbooks_id)
                    /\ SelectSeq(GetAll(db.journal_entries, je_quickbooks_id)[1].accounts,
                                 LAMBDA acc : acc.party_type = "Supplier") = <<>>
            THEN failed
            ELSE IF ~ref.bound THEN failed
            ELSE BillPaymentLines(db, bill_payment, Tail(lines), next)

\* bank_account_id by PayType; any other PayType leaves the name unbound.
BankAccountId(bill_payment) ==
    CASE bill_payment.PayType = "Check" -> bill_payment.CheckPayment.BankAccountRef
      [] bill_payment.PayType = "CreditCard" -> bill_payment.CreditCardPayment.CCAccountRef
      [] OTHER -> Unresolved

\* The credit line on the bank account.
BillPaymentCreditLine(db, bill_payment) ==
    LET bank_account == _get_account_name_by_id(db.accounts, BankAccountId(bill_payment))
        same == AccountCurrency(db.accounts, bank_account) = bill_payment.CurrencyRef
    IN Line(bank_account, 0,
            Flt2(Times(bill_payment.TotalAmt, IF same THEN 100 ELSE bill_payment.ExchangeRate)),
            NoRate, NoValue, NoValue, NoValue, NoValue)

\* The "Exchange Gain or Loss" lines, here with flt() of no precision.
BillExchangeGainLines(accts, gl_lines) ==
    LET hits == SelectSeq(gl_lines, LAMBDA l : l.account = "Exchange Gain or Loss - QB - NX")
    IN [i \in 1..Len(hits) |->
           Line(_get_account_name_by_id(accts, "95"),
                flt(hits[i].debt_home_amt), flt(hits[i].credit_home_amt),
                NoRate, NoValue, NoValue, NoValue, NoValue)]

\* _save_bill_payment(bill_payment): everything is inside the try block.
_save_bill_payment(db, bill_payment, env) ==
    LET quickbooks_id == FormatKey("BillPayment", bill_payment.Id)
        debits == BillPaymentLines(db, bill_payment, bill_payment.Line,
                                   [raised |-> FALSE, accounts |-> <<>>, ref |-> Unbound])
        bucket == LedgerBuckets(db.general_ledger, "Bill Payment (Cheque)", bill_payment.Id)
        gains == SelectSeq(bucket[1].lines,
                           LAMBDA l : l.account = "Exchange Gain or Loss - QB - NX")
    IN IF \/ debits.raised
          \/ BankAccountId(bill_payment) = Unresolved
          \/ _get_account_name_by_id(db.accounts, BankAccountId(bill_payment)) = Unresolved
          \/ bucket = <<>>
          \/ (gains # <<>> /\ _get_account_name_by_id(db.accounts, "95") = Unresolved)
       THEN Returned(_log_error(db, quickbooks_id))
       ELSE Returned(__save_journal_entry(db, quickbooks_id,
                debits.accounts \o <<BillPaymentCreditLine(db, bill_payment)>>
                    \o BillExchangeGainLines(db.accounts, bucket[1].lines),
                bill_payment.TxnDate, env))

-----------------------------------------------------------------------------
(* The company file the builder specification migrates from, and what the  *)
(* earlier phases of a run left: the local accounts (account "9" failed to *)
(* migrate), the customers (customer "C9" failed), the items, the tax code *)
(* table and the General Ledger index.                                     *)

Account(quickbooks_id, name, account_currency, account_type, tax_rate, parent_account, is_group) ==
    [quickbooks_id |-> quickbooks_id, name |-> name, account_currency |-> account_currency,
     account_type |-> account_type, tax_rate |-> tax_rate,
     parent_account |-> parent_account, is_group |-> is_group]

StoreAccounts ==
    << Account("1", "Cash on hand - QB - NX", "AED", "Bank", 0, "Asset - QB - NX", 0),
       Account("2", "Accounts Receivable (A/R) - USD - QB - NX", "USD", "Receivable", 0, "Asset - QB - NX", 0),
       Account("3", "Bank charges - QB - NX", "AED", NoValue, 0, "Expense - QB - NX", 0),
       Account("4", "Sales - QB - NX", "AED", NoValue, 0, "Income - QB - NX", 0),
       Account("TaxRate - 1", "VAT - QB - NX", "AED", "Tax", 5, "Liability - QB - NX", 0),
       Account(NoValue, "Cash - NX", "AED", "Cash", 0, NoValue, 0),
       Account(NoValue, "Debtors USD - NX", "USD", "Receivable", 0, NoValue, 0),
       Account(NoValue, "Bank charges - NX", "AED", NoValue, 0, NoValue, 0) >>

StoreCustomers ==
    << [quickbooks_id |-> "C1", name |-> "Acme",
        account |-> "Accounts Receivable (A/R) - USD - QB - NX"] >>

StoreItems == << [quickbooks_id |-> "I1", name |-> "Widget", stock_uom |-> "Unit"] >>

StoreTaxCodes ==
    << [Id |-> "5",
        SalesTaxRateList |-> << [TaxRateRef |-> "1", TaxTypeApplicable |-> "TaxOnAmount",
                                 TaxOrder |-> 0, TaxOnTaxOrder |-> 0] >>,
        PurchaseTaxRateList |-> <<>>] >>

\* One Data row of the General Ledger report, as _get_gl_entries_from_section keeps it.
GLRow(account, type, id, debit, credit, currency, debt_home_amt, credit_home_amt, customer, vendor) ==
    [account |-> account, type |-> type, id |-> id, date |-> "2024-01-05",
     debit |-> debit, credit |-> credit, currency |-> currency,
     debt_home_amt |-> IF debt_home_amt = 0 THEN <<>> ELSE <<debt_home_amt>>,
     credit_home_amt |-> IF credit_home_amt = 0 THEN <<>> ELSE <<credit_home_amt>>,
     customer |-> customer, vendor |-> vendor]

Bucket(type, id, lines) == [type |-> type, id |-> id, date |-> "2024-01-05", lines |-> lines]

\* Invoice 8 (a statement-charge invoice), Payment 30, a balanced Advance
\* Payment, a Tax Payment on an account the rename table lacks, and an
\* Inventory Qty Adjust whose lines do not balance.
StoreLedger ==
    << Bucket("Invoice", "8",
          << GLRow("Accounts Receivable (A/R) - USD - QB - NX", "Invoice", "8",
                   100000, 0, "USD", 367000, 0, <<"Acme">>, <<>>),
             GLRow("Sales - QB - NX", "Invoice", "8", 0, 100000, "USD", 0, 367000, <<"Acme">>, <<>>) >>),
       Bucket("Payment", "30",
          << GLRow("Cash on hand - QB - NX", "Payment", "30",
                   1284500, 0, "AED", 1284500, 0, <<"Acme">>, <<>>) >>),
       Bucket("Advance Payment", "20",
          << GLRow("Cash on hand - QB - NX", "Advance Payment", "20",
                   367000, 0, "AED", 367000, 0, <<>>, <<>>),
             GLRow("Accounts Receivable (A/R) - USD - QB - NX", "Advance Payment", "20",
                   0, 100000, "USD", 0, 367000, <<"Acme", "Branch">>, <<>>) >>),
       Bucket("Tax Payment", "21",
          << GLRow("Sales - QB - NX", "Tax Payment", "21", 50000, 0, "AED", 50000, 0, <<>>, <<>>),
             GLRow("Cash on hand - QB - NX", "Tax Payment", "21", 0, 50000, "AED", 0, 50000, <<>>, <<>>) >>),
       Bucket("Inventory Qty Adjust", "22",
          << GLRow("Bank charges - QB - NX", "Inventory Qty Adjust", "22",
                   100000, 0, "AED", 100000, 0, <<>>, <<>>),
             GLRow("Cash on hand - QB - NX", "Inventory Qty Adjust", "22",
                   0, 90000, "AED", 0, 90000, <<>>, <<>>) >>) >>

JELineDetail(account, amount, posting_type, entity) ==
    [DetailType |-> "JournalEntryLineDetail", AccountRef |-> account, Amount |-> amount,
     PostingType |-> posting_type, Entity |-> entity]

\* JournalEntry 1: home currency, balanced.  2: USD with a tax line, whose raw
\* tax debit leaves the converted entry unbalanced.  3: posts to account "9".
QB_JournalEntry ==
    { [Id |-> "1", CurrencyRef |-> "AED", ExchangeRate |-> 100, TxnDate |-> "2024-01-01",
       Line |-> << JELineDetail("3", 100000, "Debit", NoEntity),
                   JELineDetail("1", 100000, "Credit", NoEntity) >>,
       TaxLine |-> <<>>],
      [Id |-> "2", CurrencyRef |-> "USD", ExchangeRate |-> 367, TxnDate |-> "2024-01-02",
       Line |-> << JELineDetail("3", 100000, "Debit", NoEntity),
                   JELineDetail("1", 105000, "Credit", NoEntity) >>,
       TaxLine |-> << [Amount |-> 5000, TaxPercent |-> 5, TaxRateRef |-> "1"] >>],
      [Id |-> "3", CurrencyRef |-> "AED", ExchangeRate |-> 100, TxnDate |-> "2024-01-03",
       Line |-> << JELineDetail("9", 100000, "Debit", NoEntity),
                   JELineDetail("1", 100000, "Credit", NoEntity) >>,
       TaxLine |-> <<>>] }

SalesItemLine(item_value, item_name, qty, unit_price, amount, tax_code) ==
    [DetailType |-> "SalesItemLineDetail", ItemRef |-> [value |-> item_value, name |-> item_name],
     Qty |-> qty, UnitPrice |-> unit_price, Amount |-> amount, TaxCodeRef |-> tax_code, Margin |-> 0]

Invoice(id, customer, linked, lines) ==
    [Id |-> id, CustomerRef |-> customer, CurrencyRef |-> "USD", ExchangeRate |-> 367,
     TxnDate |-> "2024-01-04", LinkedTxn |-> linked, Line |-> lines, TaxLine |-> <<>>,
     TxnTaxCodeRef |-> NoValue, DepositToAccountRef |-> NoValue, TotalAmt |-> 0]

\* Invoice 7: two widgets at 10.00 and a shipping line of 15.00 of quantity
\* 0.  8: linked to a statement charge.  9: of customer "C9".
QB_Invoice ==
    { Invoice("7", "C1", <<>>,
              << SalesItemLine("I1", "Widget", 2, 100000, 200000, "NON"),
                 SalesItemLine("SHIPPING_ITEM_ID", "Shipping", 0, 0, 150000, "1") >>),
      Invoice("8", "C1", << [TxnType |-> "StatementCharge", TxnId |-> "40"] >>, <<>>),
      Invoice("9", "C9", <<>>, << SalesItemLine("I1", "Widget", 1, 100000, 100000, "NON") >>) }

Payment(id, deposit_to, total, lines) ==
    [Id |-> id, DepositToAccountRef |-> deposit_to, CurrencyRef |-> "USD", ExchangeRate |-> 367,
     TxnDate |-> "2024-01-06", TotalAmt |-> total, Line |-> lines]

PaymentLine(amount, txn_type, txn_id) ==
    [Amount |-> amount, LinkedTxn |-> << [TxnType |-> txn_type, TxnId |-> txn_id] >>]

\* Payment 30 settles invoice 7.  31 has no DepositToAccountRef.  32 is against
\* invoice 8.
QB_Payment ==
    { Payment("30", "1", 350000, << PaymentLine(350000, "Invoice", "7") >>),
      Payment("31", NoValue, 350000, << PaymentLine(350000, "Invoice", "7") >>),
      Payment("32", "1", 100000, << PaymentLine(100000, "Invoice", "8") >>) }

-----------------------------------------------------------------------------
(* _save_entries(entity, entries) and _migrate_entries_from_gl(entity):    *)
(* the per-entity save loops.                                              *)

Entities == {"JournalEntry", "Invoice", "Payment"}

\* entities_for_gl_transform
GLEntities == {"Supplier Credit", "Advance Payment", "Tax Payment", "Sales Tax Payment",
               "Purchase Tax Payment", "Inventory Qty Adjust"}

SourceRecords(entity) ==
    CASE entity = "JournalEntry" -> QB_JournalEntry
      [] entity = "Invoice" -> QB_Invoice
      [] entity = "Payment" -> QB_Payment
      [] OTHER -> {}

\* entity_method_map[entity](entry), and _save_entity_as_je for a ledger kind.
Transform(entity, db, entry, env) ==
    CASE entity = "JournalEntry" -> _save_journal_entry(db, entry, env)
      [] entity = "Invoice" -> _save_invoice(db, entry, env)
      [] entity = "Payment" -> _save_payment(db, entry, env)
      [] entity = "BillPayment" -> _save_bill_payment(db, entry, env)
      [] entity \in GLEntities -> _save_entity_as_je(db, entity, entry, env)

TheDb == [accounts |-> accounts,
          journal_entries |-> journal_entries,
          sales_invoices |-> sales_invoices,
          purchase_invoices |-> purchase_invoices,
          general_ledger |-> general_ledger,
          error_log |-> error_log,
          customers |-> StoreCustomers,
          items |-> StoreItems,
          tax_codes |-> StoreTaxCodes,
          default_shipping_account |-> "Shipping Income - NX"]

SetDb(db) ==
    /\ accounts' = db.accounts
    /\ journal_entries' = db.journal_entries
    /\ sales_invoices' = db.sales_invoices
    /\ purchase_invoices' = db.purchase_invoices
    /\ general_ledger' = db.general_ledger
    /\ error_log' = db.error_log

Idle == [pc |-> "idle", entity |-> NoValue, count |-> 0, index |-> 0, handed |-> <<>>]

\* The source id of an entry: "Id" of an API record, "id" of a ledger bucket.
EntryId(entity, entry) == IF entity \in GLEntities THEN entry.id ELSE entry.Id

\* _save_entries is entered with the list _migrate_entries fetched: count
\* entries, each of which is any record of the entity (drawn when its turn comes).
SaveEntries(entity, count) ==
    /\ loop.pc # "saving"
    /\ loop' = [pc |-> "saving", entity |-> entity, count |-> count, index |-> 1,
                handed |-> <<>>]
    /\ error_log' = <<>>
    /\ UNCHANGED <<accounts, journal_entries, sales_invoices, purchase_invoices, general_ledger>>
    /\ UNCHANGED <<chart, get, report, fetch, run, call>>

\* self.general_ledger[entity].values(): the buckets of the kind, in ledger order.
LedgerEntries(ledger, entity) == SelectSeq(ledger, LAMBDA b : b.type = entity)

\* _migrate_entries_from_gl(entity)
_migrate_entries_from_gl(entity) ==
    /\ loop.pc # "saving"
    /\ loop' = [pc |-> "saving", entity |-> entity,
                count |-> Len(LedgerEntries(general_ledger, entity)), index |-> 1,
                handed |-> <<>>]
    /\ error_log' = <<>>
    /\ UNCHANGED <<accounts, journal_entries, sales_invoices, purchase_invoices, general_ledger>>
    /\ UNCHANGED <<chart, get, report, fetch, run, call>>

\* The entries the loop in progress can have at its current index.
EntryAtIndex ==
    IF loop.entity \in GLEntities
    THEN {LedgerEntries(general_ledger, loop.entity)[i] : i \in {loop.index} \cap (1..loop.count)}
    ELSE SourceRecords(loop.entity)

\* One turn of "for index, entry in enumerate(entries, start=1)": the entry is
\* handed to its transformer (loop.handed lists the ids handed so far).  An
\* exception that leaves the transformer leaves the loop and the function.
SaveEntry(entry, env) ==
    /\ loop.pc = "saving"
    /\ loop.index <= loop.count
    /\ LET res == Transform(loop.entity, TheDb, entry, env)
           handed == Append(loop.handed, EntryId(loop.entity, entry))
       IN /\ SetDb(res.db)
          /\ loop' = IF res.raised THEN [loop EXCEPT !.pc = "aborted", !.handed = handed]
                     ELSE [loop EXCEPT !.index = @ + 1, !.handed = handed]
    /\ UNCHANGED <<chart, get, report, fetch, run, call>>

\* The list is exhausted: frappe.db.commit() and return.
SaveEntriesReturn ==
    /\ loop.pc = "saving"
    /\ loop.index > loop.count
    /\ loop' = [loop EXCEPT !.pc = "returned"]
    /\ UNCHANGED <<accounts, journal_entries, sales_invoices, purchase_invoices, general_ledger, error_log>>
    /\ UNCHANGED <<chart, get, report, fetch, run, call>>

Init ==
    /\ accounts = StoreAccounts
    /\ journal_entries = {}
    /\ sales_invoices = {} /\ purchase_invoices = {}
    /\ general_ledger = StoreLedger
    /\ loop = Idle
    /\ error_log = <<>>
    /\ chart = Unused /\ get = Unused /\ report = Unused /\ fetch = Unused /\ run = Unused /\ call = Unused

Next ==
    \/ \E entity \in Entities : \E count \in 0..MaxEntries : SaveEntries(entity, count)
    \/ \E entity \in GLEntities : _migrate_entries_from_gl(entity)
    \/ \E entry \in EntryAtIndex : \E env \in StorageAnswers : SaveEntry(entry, env)
    \/ SaveEntriesReturn

Spec == Init /\ [][Next]_vars

-----------------------------------------------------------------------------
(* Properties of the builder and the save loops, checked under Spec.       *)

\* The idempotency key the transformer of the entity computes for a source id.
QuickbooksIdOf(entity, id) ==
    IF entity = "JournalEntry" THEN FormatKey("Journal Entry", id) ELSE FormatKey(entity, id)

Persisted(quickbooks_id) ==
    Exists(journal_entries, quickbooks_id) \/ Exists(sales_invoices, quickbooks_id)

OnePerKey(docs) == \A d1, d2 \in docs : d1.quickbooks_id = d2.quickbooks_id => d1 = d2

\* A step that hands an entry whose key is already persisted leaves both tables
\* as they are.
SecondCallIsNoOp ==
    (/\ Len(loop'.handed) = Len(loop.handed) + 1
     /\ Persisted(QuickbooksIdOf(loop.entity, loop'.handed[Len(loop'.handed)])))
        => UNCHANGED <<journal_entries, sales_invoices, purchase_invoices>>

C2_EveryEntryBalanced == \A je \in journal_entries : Balanced(je.accounts)

\* C3: every document the builder left in the store is submitted; a failed
\* insert or submit leaves no draft behind.
C3_NoDraftRemains ==
    /\ \A je \in journal_entries : je.docstatus = 1
    /\ \A si \in sales_invoices : si.docstatus = 1

\* C4: a save loop that has ended has handed every entry of its list to the
\* transformer: no failing entry keeps the later ones from their turn.
C4_LoopHandsEveryEntry ==
    loop.pc \in {"returned", "aborted"} => Len(loop.handed) = loop.count

\* Whether _save_invoice redirects the invoice to the ledger-derived entry.
LinkedToCharge(invoice) ==
    \E i \in 1..Len(invoice.LinkedTxn) :
        invoice.LinkedTxn[i].TxnType \in {"StatementCharge", "ReimburseCharge"}

\* The lines of a Journal Entry are the General Ledger lines of (Invoice, id),
\* one for one: the account, and the debit or else the credit of the line.
LinesFromLedger(je, id) ==
    \E k \in 1..Len(general_ledger) :
        LET bucket == general_ledger[k]
        IN /\ bucket.type = "Invoice" /\ bucket.id = id
           /\ Len(je.accounts) = Len(bucket.lines)
           /\ \A i \in 1..Len(bucket.lines) :
                  /\ je.accounts[i].account = bucket.lines[i].account
                  /\ je.accounts[i].debit_in_account_currency = bucket.lines[i].debit
                  /\ je.accounts[i].credit_in_account_currency =
                         (IF bucket.lines[i].debit = 0 THEN bucket.lines[i].credit ELSE 0)

\* C14: an Invoice linked to a StatementCharge or a ReimburseCharge is never
\* persisted as a Sales Invoice, and the Journal Entry with key
\* "Invoice - <Id>" it is persisted as has the General Ledger lines of
\* (Invoice, Id); every other Invoice is persisted only as a Sales Invoice;
\* so no invoice id has a document of both kinds.
C14_InvoiceIsJournalEntryOrSalesInvoice ==
    \A invoice \in QB_Invoice :
        LET quickbooks_id == FormatKey("Invoice", invoice.Id)
        IN /\ LinkedToCharge(invoice) =>
                 /\ ~Exists(sales_invoices, quickbooks_id)
                 /\ \A je \in WithKey(journal_entries, quickbooks_id) :
                        LinesFromLedger(je, invoice.Id)
           /\ ~LinkedToCharge(invoice) => ~Exists(journal_entries, quickbooks_id)
           /\ ~(Exists(sales_invoices, quickbooks_id) /\ Exists(journal_entries, quickbooks_id))

\* One loop over Invoice was handed invoice 8, linked to a statement charge, and
\* invoice 7, linked to nothing: 8 is a Journal Entry and 7 a Sales Invoice.
C14_Witness ==
    /\ loop.entity = "Invoice"
    /\ loop.handed = <<"8", "7">>
    /\ Exists(journal_entries, "Invoice - 8")
    /\ Exists(sales_invoices, "Invoice - 7")

\* The multi-currency rule as stated: a posting line of a transaction on an
\* account of another currency carries the source amount times the
\* transaction's exchange rate; on an account of the transaction's currency
\* it carries the source amount and the exchange rate 1.
FollowsRateRule(line, amount, txn) ==
    LET posted == line.debit_in_account_currency + line.credit_in_account_currency
    IN IF AccountCurrency(accounts, line.account) = txn.CurrencyRef
       THEN posted = amount /\ line.exchange_rate = Rate(100)
       ELSE posted = Times(amount, txn.ExchangeRate)

\* What the transformers do on an account of the transaction's currency: the
\* source amount, and the transaction's exchange rate on the line.
FollowsRateRuleOfTheCode(line, amount, txn) ==
    LET posted == line.debit_in_account_currency + line.credit_in_account_currency
    IN IF AccountCurrency(accounts, line.account) = txn.CurrencyRef
       THEN posted = amount /\ line.exchange_rate = Rate(txn.ExchangeRate)
       ELSE posted = Times(amount, txn.ExchangeRate) /\ line.exchange_rate = Rate(100)

\* The source amount behind the k-th line of the entry of a JournalEntry: its
\* detail lines, then its tax lines.
JESourceAmount(journal_entry, k) ==
    IF k <= Len(journal_entry.Line) THEN journal_entry.Line[k].Amount
    ELSE journal_entry.TaxLine[k - Len(journal_entry.Line)].Amount

\* C15: every posting line of the entries of the JournalEntry and Payment
\* transformers follows the multi-currency rule: on an account of another
\* currency than the transaction's the amount is the source amount times
\* the transaction's exchange rate; on an account of the same currency the
\* amount is the source amount and the line's exchange rate is 1.
C15_ExchangeRateRule ==
    /\ \A r \in QB_JournalEntry :
       \A je \in WithKey(journal_entries, FormatKey("Journal Entry", r.Id)) :
       \A k \in 1..Len(je.accounts) :
           FollowsRateRule(je.accounts[k], JESourceAmount(r, k), r)
    /\ \A p \in QB_Payment :
       \A je \in WithKey(journal_entries, FormatKey("Payment", p.Id)) :
           /\ FollowsRateRule(je.accounts[Len(p.Line) + 1], p.TotalAmt, p)
           /\ \A k \in 1..Len(p.Line) :
                  AccountCurrency(accounts, je.accounts[k].account) = p.CurrencyRef
                      => je.accounts[k].exchange_rate = Rate(100)

\* The detail lines of a JournalEntry and the deposit line of a Payment, by
\* the rule the transformers implement.
C15_DetailLinesByTheCode ==
    /\ \A r \in QB_JournalEntry :
       \A je \in WithKey(journal_entries, FormatKey("Journal Entry", r.Id)) :
       \A k \in 1..Len(r.Line) :
           FollowsRateRuleOfTheCode(je.accounts[k], r.Line[k].Amount, r)
    /\ \A p \in QB_Payment :
       \A je \in WithKey(journal_entries, FormatKey("Payment", p.Id)) :
           /\ FollowsRateRuleOfTheCode(je.accounts[Len(p.Line) + 1], p.TotalAmt, p)
           /\ \A k \in 1..Len(p.Line) :
                  AccountCurrency(accounts, je.accounts[k].account) = p.CurrencyRef
                      => je.accounts[k].exchange_rate = Rate(p.ExchangeRate)

\* The first half of the rule alone, of the tax lines of a JournalEntry: on a
\* tax account of another currency the debit is the converted amount.
C15_TaxLineIsConverted ==
    \A r \in QB_JournalEntry :
    \A je \in WithKey(journal_entries, FormatKey("Journal Entry", r.Id)) :
    \A k \in (Len(r.Line) + 1)..Len(je.accounts) :
        AccountCurrency(accounts, je.accounts[k].account) # r.CurrencyRef
            => je.accounts[k].debit_in_account_currency
                   = Times(JESourceAmount(r, k), r.ExchangeRate)

-----------------------------------------------------------------------------
(* The payment phase: the save loops of Payment and BillPayment on the     *)
(* store the Invoice and Bill phases left.  Invoice 7 is a Sales Invoice   *)
(* with 20.00 outstanding, invoice 8 a Journal Entry, Bill 40 a Purchase   *)
(* Invoice with 15.00 outstanding.                                         *)

\* The local accounts, with the payable account of the vendor.
PaymentPhaseAccounts ==
    Append(StoreAccounts,
           Account("5", "Accounts Payable (A/P) - QB - NX", "AED", "Payable", 0,
                   "Liability - QB - NX", 0))

\* The Purchase Invoice the Bill phase left for Bill 40.
StorePurchaseInvoices ==
    { [quickbooks_id |-> "Bill - 40", name |-> DocName("PINV", "Bill - 40"), nth |-> 1,
       docstatus |-> 1, supplier |-> "Vendor A",
       credit_to |-> "Accounts Payable (A/P) - QB - NX", currency |-> "AED",
       conversion_rate |-> 100, grand_total |-> 150000, outstanding_amount |-> 150000] }

\* The General Ledger index, with the buckets of the payments.
PaymentPhaseLedger ==
    StoreLedger \o
    << Bucket("Payment", "32",
          << GLRow("Cash on hand - QB - NX", "Payment", "32",
                   367000, 0, "AED", 367000, 0, <<"Acme">>, <<>>) >>),
       Bucket("Payment", "33",
          << GLRow("Cash on hand - QB - NX", "Payment", "33",
                   2936000, 0, "AED", 2936000, 0, <<"Acme">>, <<>>) >>),
       Bucket("Bill Payment (Cheque)", "50",
          << GLRow("Cash on hand - QB - NX", "Bill Payment (Cheque)", "50",
                   0, 200000, "AED", 0, 200000, <<>>, <<"Vendor A">>) >>),
       Bucket("Bill Payment (Cheque)", "51",
          << GLRow("Cash on hand - QB - NX", "Bill Payment (Cheque)", "51",
                   0, 150000, "AED", 0, 150000, <<>>, <<"Vendor A">>) >>) >>

BillPayment(id, pay_type, bank_account, total, lines) ==
    [Id |-> id, PayType |-> pay_type, CheckPayment |-> [BankAccountRef |-> bank_account],
     CreditCardPayment |-> [CCAccountRef |-> bank_account], CurrencyRef |-> "AED",
     ExchangeRate |-> 100, TxnDate |-> "2024-01-07", TotalAmt |-> total, Line |-> lines]

\* BillPayment 50 pays 20.00 against Bill 40, 51 pays its 15.00, 52 is linked
\* to a vendor credit that has no Journal Entry, 53 is paid in cash.
QB_BillPayment ==
    { BillPayment("50", "Check", "1", 200000, << PaymentLine(200000, "Bill", "40") >>),
      BillPayment("51", "Check", "1", 150000, << PaymentLine(150000, "Bill", "40") >>),
      BillPayment("52", "CreditCard", "1", 50000,
                  << PaymentLine(50000, "VendorCredit", "60") >>),
      BillPayment("53", "Cash", "1", 150000, << PaymentLine(150000, "Bill", "40") >>) }

\* The payments of the company: those of QB_Payment, payment 33 of 80.00
\* against invoice 7, and payment 34, without DepositToAccountRef, against an
\* invoice that was never persisted and with a line linked to nothing.
PaymentRecords(entity) ==
    CASE entity = "Payment" ->
             QB_Payment \cup
             { Payment("33", "1", 800000, << PaymentLine(800000, "Invoice", "7") >>),
               Payment("34", NoValue, 100000,
                       << PaymentLine(100000, "Invoice", "99"),
                          [Amount |-> 50000, LinkedTxn |-> <<>>] >>) }
      [] entity = "BillPayment" -> QB_BillPayment
      [] OTHER -> {}

\* Payment 30 as the company file has it after an edit: against Invoice 99,
\* which was never persisted.
EditedRecords(entity) ==
    IF entity = "Payment"
    THEN { Payment("30", "1", 350000, << PaymentLine(350000, "Invoice", "99") >>) }
    ELSE {}

AllAnswersOk == [insert |-> "ok", submit |-> "ok"]

\* The store before the Invoice phase, and after _save_invoice of invoices 7 and 8.
BeforeInvoicePhase ==
    [accounts |-> PaymentPhaseAccounts, journal_entries |-> {}, sales_invoices |-> {},
     purchase_invoices |-> StorePurchaseInvoices, general_ledger |-> PaymentPhaseLedger,
     error_log |-> <<>>, customers |-> StoreCustomers, items |-> StoreItems,
     tax_codes |-> StoreTaxCodes, default_shipping_account |-> "Shipping Income - NX"]

AfterInvoicePhase ==
    LET invoice(id) == CHOOSE i \in QB_Invoice : i.Id = id
    IN _save_invoice(_save_invoice(BeforeInvoicePhase, invoice("7"), AllAnswersOk).db,
                     invoice("8"), AllAnswersOk).db

InitPayments ==
    /\ accounts = AfterInvoicePhase.accounts
    /\ journal_entries = AfterInvoicePhase.journal_entries
    /\ sales_invoices = AfterInvoicePhase.sales_invoices
    /\ purchase_invoices = AfterInvoicePhase.purchase_invoices
    /\ general_ledger = AfterInvoicePhase.general_ledger
    /\ error_log = <<>>
    /\ loop = Idle
    /\ chart = Unused /\ get = Unused /\ report = Unused /\ fetch = Unused /\ run = Unused /\ call = Unused

NextPayments ==
    \/ \E entity \in {"Payment", "BillPayment"} : \E count \in 0..MaxEntries :
           SaveEntries(entity, count)
    \/ \E entry \in PaymentRecords(loop.entity) \cup EditedRecords(loop.entity) :
       \E env \in StorageAnswers :
           SaveEntry(entry, env)
    \/ SaveEntriesReturn

SpecPayments == InitPayments /\ [][NextPayments]_vars

\* The record the loop handed over in this step.
HandedOver(records) ==
    {r \in records : /\ Len(loop'.handed) = Len(loop.handed) + 1
                     /\ r.Id = loop'.handed[Len(loop'.handed)]}

\* The Journal Entry documents this step inserted under a key.
InsertedEntries(quickbooks_id) ==
    WithKey(journal_entries', quickbooks_id) \ WithKey(journal_entries, quickbooks_id)

Min(a, b) == IF a < b THEN a ELSE b

\* outstanding_amount of the first document with a key, before the step.
OutstandingAmount(docs, quickbooks_id) ==
    (CHOOSE d \in docs : d.quickbooks_id = quickbooks_id /\ d.nth = 1).outstanding_amount

\* C12: in the entry a Payment (BillPayment) produces, the k-th line linked to
\* an invoice (bill) is applied on the receivable (payable) account with
\* min(Amount, outstanding amount of the document when the payment is
\* handed over), converted afterwards when the account is in another
\* currency; unconverted, it never exceeds the outstanding amount.
C12_AppliedAmountIsCapped ==
    [][/\ \A p \in HandedOver(PaymentRecords("Payment")) :
           \A je \in InsertedEntries(FormatKey("Payment", p.Id)) :
           \A k \in 1..Len(p.Line) :
               LET key == FormatKey("Invoice", p.Line[k].LinkedTxn[1].TxnId)
                   applied == Min(p.Line[k].Amount, OutstandingAmount(sales_invoices, key))
                   same == AccountCurrency(accounts, je.accounts[k].account) = p.CurrencyRef
               IN /\ loop.entity = "Payment"
                  /\ je.accounts[k].party_type = "Customer"
                  /\ je.accounts[k].credit_in_account_currency =
                         Flt2(Times(applied, IF same THEN 100 ELSE p.ExchangeRate))
                  /\ same => je.accounts[k].credit_in_account_currency
                                 <= OutstandingAmount(sales_invoices, key)
       /\ \A p \in HandedOver(PaymentRecords("BillPayment")) :
           \A je \in InsertedEntries(FormatKey("BillPayment", p.Id)) :
           \A k \in {i \in 1..Len(p.Line) : p.Line[i].LinkedTxn[1].TxnType = "Bill"} :
               LET key == FormatKey("Bill", p.Line[k].LinkedTxn[1].TxnId)
                   applied == Min(p.Line[k].Amount, OutstandingAmount(purchase_invoices, key))
                   same == AccountCurrency(accounts, je.accounts[k].account) = p.CurrencyRef
               IN /\ loop.entity = "BillPayment"
                  /\ je.accounts[k].party_type = "Supplier"
                  /\ same
                  /\ je.accounts[k].debit_in_account_currency = Flt2(applied)
                  /\ je.accounts[k].debit_in_account_currency
                         <= OutstandingAmount(purchase_invoices, key)
      ]_vars

\* Payment 33 of 80.00 was applied with the 20.00 outstanding on invoice 7, and
\* BillPayment 50 of 20.00 with the 15.00 outstanding on Bill 40.
C12_Witness ==
    /\ \E je \in WithKey(journal_entries, "Payment - 33") :
           je.accounts[1].credit_in_account_currency = 200000
    /\ \E je \in WithKey(journal_entries, "BillPayment - 50") :
           je.accounts[1].debit_in_account_currency = 150000

\* C16: handing over a Payment without DepositToAccountRef, whatever its lines
\* contain, creates no Journal Entry, changes no persisted record and logs no
\* error.
C16_PaymentWithoutDepositIsSkipped ==
    [][\A p \in HandedOver(PaymentRecords("Payment")) :
           (loop.entity = "Payment" /\ p.DepositToAccountRef = NoValue)
               => /\ UNCHANGED <<journal_entries, sales_invoices, purchase_invoices,
                                 accounts, general_ledger, error_log>>
                  /\ loop'.pc = "saving"
      ]_vars

\* Payments 31 and 34, both without DepositToAccountRef, were handed over, 34
\* with a line against an Invoice that was never persisted.
C16_Witness ==
    /\ loop.entity = "Payment"
    /\ loop.handed = <<"34", "31">>
    /\ error_log = <<>>
    /\ ~Exists(journal_entries, "Payment - 34") /\ ~Exists(journal_entries, "Payment - 31")

\* C20: a transformer handed a record whose key is already persisted looks
\* nothing up: it logs no error, creates nothing and changes nothing, and the
\* loop goes on, even when a lookup for the record would fail.
C20_ExistenceCheckComesFirst ==
    [][(/\ Len(loop'.handed) = Len(loop.handed) + 1
        /\ Exists(journal_entries, FormatKey(loop.entity, loop'.handed[Len(loop'.handed)])))
           => /\ UNCHANGED <<journal_entries, sales_invoices, purchase_invoices,
                             accounts, general_ledger, error_log>>
              /\ loop'.pc = "saving"
      ]_vars

\* Whether the Invoice a payment line is linked to was persisted, in either form.
InvoicePersisted(line) ==
    LET key == FormatKey("Invoice", line.LinkedTxn[1].TxnId)
    IN Exists(journal_entries, key) \/ Exists(sales_invoices, key)

\* The k-th line of a payment entry references the Journal Entry the linked
\* Invoice was persisted as, with the account and party of its Customer line,
\* or else the Sales Invoice, with its debit_to account and its customer.
ReferencesInvoice(je, line, k) ==
    LET key == FormatKey("Invoice", line.LinkedTxn[1].TxnId)
    IN IF Exists(journal_entries, key)
       THEN \E ref \in WithKey(journal_entries, key) :
            \E i \in 1..Len(ref.accounts) :
                /\ ref.accounts[i].party_type = "Customer"
                /\ je.accounts[k].reference_type = "Journal Entry"
                /\ je.accounts[k].reference_name = ref.name
                /\ je.accounts[k].account = ref.accounts[i].account
                /\ je.accounts[k].party = ref.accounts[i].party
       ELSE \E ref \in WithKey(sales_invoices, key) :
                /\ je.accounts[k].reference_type = "Sales Invoice"
                /\ je.accounts[k].reference_name = ref.name
                /\ je.accounts[k].account = ref.debit_to
                /\ je.accounts[k].party = ref.customer

\* C13: a Payment with a deposit account, each line of which is linked to an
\* Invoice persisted as a Journal Entry or as a Sales Invoice, is persisted by
\* _save_payment on a storage that refuses nothing, and each of its credit
\* lines references the document the Invoice was persisted as, with the
\* receivable account and the party of that document.
C13_PaymentAgainstEitherFormIsPersisted ==
    \A p \in PaymentRecords("Payment") :
        LET quickbooks_id == FormatKey("Payment", p.Id)
            after == _save_payment(TheDb, p, AllAnswersOk).db
        IN (/\ p.DepositToAccountRef # NoValue
            /\ ~Exists(journal_entries, quickbooks_id)
            /\ \A k \in 1..Len(p.Line) :
                   /\ p.Line[k].LinkedTxn[1].TxnType = "Invoice"
                   /\ InvoicePersisted(p.Line[k]))
           => \E je \in WithKey(after.journal_entries, quickbooks_id) :
                  \A k \in 1..Len(p.Line) : ReferencesInvoice(je, p.Line[k], k)

\* The same of the payments whose Invoices were persisted as Sales Invoices.
C13_PaymentAgainstSalesInvoiceIsPersisted ==
    \A p \in PaymentRecords("Payment") :
        LET quickbooks_id == FormatKey("Payment", p.Id)
            after == _save_payment(TheDb, p, AllAnswersOk).db
        IN (/\ p.DepositToAccountRef # NoValue
            /\ ~Exists(journal_entries, quickbooks_id)
            /\ \A k \in 1..Len(p.Line) :
                   /\ p.Line[k].LinkedTxn[1].TxnType = "Invoice"
                   /\ ~Exists(journal_entries,
                              FormatKey("Invoice", p.Line[k].LinkedTxn[1].TxnId))
                   /\ InvoicePersisted(p.Line[k]))
           => \E je \in WithKey(after.journal_entries, quickbooks_id) :
                  \A k \in 1..Len(p.Line) : ReferencesInvoice(je, p.Line[k], k)

-----------------------------------------------------------------------------
(* The account phase: _preprocess_accounts and _save_account.              *)

\* erpnext.encode_company_abbr(name, company): the name with the company's
\* abbreviation appended; the store names an Account document the same way.
encode_company_abbr(name) == name \o " - NX"

\* int(account["Id"])
IntOfId(id) == CHOOSE n \in 0..99 : ToString(n) = id

\* A QuickBooks account as the API returns it.
QBAccount(id, name, account_type, sub_account, parent_ref) ==
    [Id |-> id, Name |-> name, AccountType |-> account_type, CurrencyRef |-> "AED",
     SubAccount |-> sub_account, ParentRef |-> parent_ref, is_group |-> 0]

\* sorted(accounts, key=lambda account: int(account["Id"]))
RECURSIVE SortedById(_)
SortedById(accts) ==
    IF accts = <<>> THEN <<>>
    ELSE LET least == CHOOSE i \in 1..Len(accts) :
                          \A j \in 1..Len(accts) :
                              \/ IntOfId(accts[i].Id) < IntOfId(accts[j].Id)
                              \/ (IntOfId(accts[i].Id) = IntOfId(accts[j].Id) /\ i <= j)
         IN <<accts[least]>>
                \o SortedById([k \in 1..(Len(accts) - 1) |->
                                  IF k < least THEN accts[k] ELSE accts[k + 1]])

\* _preprocess_accounts(accounts): is_group marks the accounts that some
\* sub-account names as its parent; the result is sorted by numeric Id.
_preprocess_accounts(accts) ==
    SortedById([i \in 1..Len(accts) |->
        [accts[i] EXCEPT !.is_group =
            IF \E j \in 1..Len(accts) :
                   accts[j].SubAccount /\ accts[j].ParentRef = accts[i].Id
            THEN 1 ELSE 0]])

\* mapping: QuickBooks account type to root type
root_type_mapping ==
    [t \in {"Bank", "Other Current Asset", "Fixed Asset", "Other Asset",
            "Accounts Receivable"} |-> "Asset"]
    @@ [t \in {"Equity"} |-> "Equity"]
    @@ [t \in {"Expense", "Other Expense", "Cost of Goods Sold"} |-> "Expense"]
    @@ [t \in {"Accounts Payable", "Credit Card", "Long Term Liability",
               "Other Current Liability"} |-> "Liability"]
    @@ [t \in {"Income", "Other Income"} |-> "Income"]

\* _get_account_type(account); no modelled account has an AccountSubType.
_get_account_type(account) ==
    CASE account.AccountType = "Accounts Payable" -> "Payable"
      [] account.AccountType = "Accounts Receivable" -> "Receivable"
      [] account.AccountType \in {"Bank", "Credit Card"} -> "Bank"
      [] OTHER -> NoValue

\* _get_unique_account_name(quickbooks_name, number)
RECURSIVE _get_unique_account_name(_, _, _)
_get_unique_account_name(accts, quickbooks_name, number) ==
    LET quickbooks_account_name ==
            IF number # 0 THEN quickbooks_name \o " - " \o ToString(number) \o " - QB"
            ELSE quickbooks_name \o " - QB"
    IN IF AccountByName(accts, encode_company_abbr(quickbooks_account_name)) # <<>>
       THEN _get_unique_account_name(accts, quickbooks_name, number + 1)
       ELSE quickbooks_account_name

\* What the two inserts of _save_account can answer.
AccountInserts == [first : {"ok", "raise"}, second : {"ok", "raise"}]

\* The parent resolved through the parent's own id, its leaf account.
ParentOfSubAccountIsLeaf(accts, account) ==
    IF account.SubAccount
    THEN _get_account_name_by_id(accts, account.ParentRef)
    ELSE encode_company_abbr(root_type_mapping[account.AccountType] \o " - QB")

\* parent_account of _save_account: "if is_child: .. else: .."
ParentOfSubAccount(accts, account) ==
    IF account.SubAccount
    THEN _get_account_name_by_id(accts, FormatKey("Group", account.ParentRef))
    ELSE encode_company_abbr(root_type_mapping[account.AccountType] \o " - QB")

\* _save_account(account): db.accounts and db.error_log after the call.  The
\* whole body is inside the try, so nothing leaves the function.
_save_account(db, account, env) ==
    LET accts == db.accounts
        account_id == IF account.is_group = 1 THEN FormatKey("Group", account.Id)
                      ELSE account.Id
        parent_account == ParentOfSubAccount(accts, account)
        first == Account(account_id,
                         encode_company_abbr(_get_unique_account_name(accts, account.Name, 0)),
                         account.CurrencyRef, _get_account_type(account), 0,
                         parent_account, account.is_group)
        with_first == Append(accts, first)
        leaf == Account(account.Id,
                        encode_company_abbr(_get_unique_account_name(with_first, account.Name, 0)),
                        account.CurrencyRef, _get_account_type(account), 0,
                        _get_account_name_by_id(with_first, account_id), 0)
    IN IF AccountsById(accts, account.Id) # <<>> THEN db
       ELSE IF account.SubAccount /\ parent_account = Unresolved
       THEN _log_error(db, account.Id)
       ELSE IF account.AccountType \notin DOMAIN root_type_mapping
       THEN _log_error(db, account.Id)
       ELSE IF env.first = "raise" THEN _log_error(db, account.Id)
       ELSE IF account.is_group = 0 THEN [db EXCEPT !.accounts = with_first]
       ELSE IF env.second = "raise"
       THEN _log_error([db EXCEPT !.accounts = with_first], account.Id)
       ELSE [db EXCEPT !.accounts = Append(with_first, leaf)]

\* The accounts _make_root_accounts leaves.
RootAccounts ==
    [i \in 1..5 |->
        Account(NoValue,
                encode_company_abbr(<<"Asset", "Equity", "Expense", "Liability", "Income">>[i]
                                    \o " - QB"),
                "AED", NoValue, 0, NoValue, 1)]

\* The company's chart of accounts in QuickBooks, in the order the API lists
\* it: first accounts 1 and 3 alone, later with account 2 as a sub-account of 1.
QB_Charts ==
    << << QBAccount("1", "Current Assets", "Other Current Asset", FALSE, NoValue),
          QBAccount("3", "Rent", "Expense", FALSE, NoValue) >>,
       << QBAccount("2", "Petty Cash", "Other Current Asset", TRUE, "1"),
          QBAccount("1", "Current Assets", "Other Current Asset", FALSE, NoValue),
          QBAccount("3", "Rent", "Expense", FALSE, NoValue) >> >>

MaxRuns == 3

ChartDb == [accounts |-> accounts, error_log |-> error_log]

\* A run reaches _save_entries("Account", ..) with the chart of the day,
\* preprocessed.  "healthy" says that storage fails no insert during this run.
MigrateAccounts(version, healthy) ==
    /\ chart.pc # "saving"
    /\ chart.runs < MaxRuns
    /\ version >= chart.version
    /\ chart' = [pc |-> "saving", version |-> version, healthy |-> healthy,
                 runs |-> chart.runs + 1,
                 entries |-> _preprocess_accounts(QB_Charts[version]), index |-> 1]
    /\ error_log' = <<>>
    /\ UNCHANGED <<accounts, journal_entries, sales_invoices, purchase_invoices, general_ledger, loop>>
    /\ UNCHANGED <<get, report, fetch, run, call>>

\* One turn of the loop of _save_entries: _save_account(entry).
SaveAccount(env) ==
    /\ chart.pc = "saving"
    /\ chart.index <= Len(chart.entries)
    /\ chart.healthy => (env.first = "ok" /\ env.second = "ok")
    /\ LET db == _save_account(ChartDb, chart.entries[chart.index], env)
       IN /\ accounts' = db.accounts
          /\ error_log' = db.error_log
    /\ chart' = [chart EXCEPT !.index = @ + 1]
    /\ UNCHANGED <<journal_entries, sales_invoices, purchase_invoices, general_ledger, loop>>
    /\ UNCHANGED <<get, report, fetch, run, call>>

\* The list is exhausted: frappe.db.commit() and return.
SaveAccountsReturn ==
    /\ chart.pc = "saving"
    /\ chart.index > Len(chart.entries)
    /\ chart' = [chart EXCEPT !.pc = "returned"]
    /\ UNCHANGED <<accounts, journal_entries, sales_invoices, purchase_invoices, general_ledger, loop, error_log>>
    /\ UNCHANGED <<get, report, fetch, run, call>>

InitAccounts ==
    /\ accounts = RootAccounts
    /\ error_log = <<>>
    /\ chart = [pc |-> "idle", version |-> 1, healthy |-> TRUE, runs |-> 0,
                entries |-> <<>>, index |-> 0]
    /\ journal_entries = {} /\ sales_invoices = {} /\ purchase_invoices = {} /\ general_ledger = <<>> /\ loop = Unused
    /\ get = Unused /\ report = Unused /\ fetch = Unused /\ run = Unused /\ call = Unused

NextAccounts ==
    \/ \E version \in 1..Len(QB_Charts) : \E healthy \in BOOLEAN :
           MigrateAccounts(version, healthy)
    \/ \E env \in AccountInserts : SaveAccount(env)
    \/ SaveAccountsReturn

SpecAccounts == InitAccounts /\ [][NextAccounts]_vars

\* The local accounts that carry a QuickBooks id.
LocalById(quickbooks_id) ==
    {i \in 1..Len(accounts) : accounts[i].quickbooks_id = quickbooks_id}

\* The source account has one group account, and one leaf account under it.
HasGroupLeafPair(id) ==
    /\ Cardinality(LocalById(FormatKey("Group", id))) = 1
    /\ Cardinality(LocalById(id)) = 1
    /\ \A g \in LocalById(FormatKey("Group", id)) : \A l \in LocalById(id) :
           /\ accounts[g].is_group = 1
           /\ accounts[l].is_group = 0
           /\ accounts[l].parent_account = accounts[g].name

\* C10: after a run whose inserts all succeeded, whatever the runs before it
\* were, every source account marked is_group has exactly one local account
\* "Group - <Id>" and exactly one local leaf account "<Id>" under that group.
C10_GroupLeafPair ==
    (chart.pc = "returned" /\ chart.healthy) =>
        \A i \in 1..Len(chart.entries) :
            chart.entries[i].is_group = 1 => HasGroupLeafPair(chart.entries[i].Id)

\* The case the claim has in mind: account 1, a group from the first run on.
C10_Witness ==
    /\ chart.pc = "returned" /\ chart.healthy /\ chart.version = 2
    /\ HasGroupLeafPair("1")

\* The source sub-accounts, over all the charts.
SubAccounts ==
    {a \in UNION {Range(QB_Charts[v]) : v \in 1..Len(QB_Charts)} : a.SubAccount}

\* The local accounts _save_account inserted first for a source account:
\* the account itself, or its group node.
FirstLocalOf(account) ==
    LocalById(account.Id) \cup LocalById(FormatKey("Group", account.Id))

\* The local account l has for parent a local account with this id.
ParentHasId(l, quickbooks_id) ==
    \E g \in LocalById(quickbooks_id) : accounts[g].name = accounts[l].parent_account

-----------------------------------------------------------------------------
(* The account phase over every chart of at most MaxAccounts accounts: the *)
(* accounts carry the ids 1..n of their creation, each is a top-level      *)
(* account or a sub-account of another account of the chart (QuickBooks    *)
(* lets an account be moved under an account created after it), and the    *)
(* API lists them in any order.                                            *)

MaxAccounts == 3

\* parent[i] is the account that account i is a sub-account of, 0 for none;
\* no account is its own ancestor.
ParentMaps(n) ==
    {parent \in [1..n -> 0..n] :
        \E depth \in [1..n -> 1..n] :
            \A i \in 1..n : parent[i] # 0 => depth[parent[i]] < depth[i]}

\* The orders of a listing of n accounts.
Listings(n) == {order \in [1..n -> 1..n] : \A i, j \in 1..n : order[i] = order[j] => i = j}

\* The Account entries the API returns.
InputCharts ==
    UNION {{[k \in 1..n |->
                QBAccount(ToString(order[k]), "Account " \o ToString(order[k]), "Expense",
                          parent[order[k]] # 0,
                          IF parent[order[k]] # 0 THEN ToString(parent[order[k]])
                          ELSE NoValue)] :
               order \in Listings(n), parent \in ParentMaps(n)} : n \in 1..MaxAccounts}

\* _save_entries("Account", _preprocess_entries("Account", entries)) on a
\* company that has its root accounts only.
InitOrder ==
    /\ accounts = RootAccounts
    /\ error_log = <<>>
    /\ chart \in {[pc |-> "saving", version |-> 1, healthy |-> healthy, runs |-> 1,
                   entries |-> _preprocess_accounts(entries), index |-> 1] :
                     entries \in InputCharts, healthy \in BOOLEAN}
    /\ journal_entries = {} /\ sales_invoices = {} /\ purchase_invoices = {} /\ general_ledger = <<>> /\ loop = Unused
    /\ get = Unused /\ report = Unused /\ fetch = Unused /\ run = Unused /\ call = Unused

NextOrder ==
    \/ \E env \in AccountInserts : SaveAccount(env)
    \/ SaveAccountsReturn

SpecOrder == InitOrder /\ [][NextOrder]_vars

\* C22: every sub-account of the chart stands in the list being saved after
\* its parent account, and when the loop reaches a sub-account in a run
\* whose inserts all succeeded, the group node of its parent is there for
\* the parent lookup.
C22_ParentIsSavedBeforeSubAccount ==
    chart.pc = "saving" =>
        /\ \A i \in 1..Len(chart.entries) :
               chart.entries[i].SubAccount =>
                   \E j \in 1..(i - 1) : chart.entries[j].Id = chart.entries[i].ParentRef
        /\ (chart.healthy /\ chart.index <= Len(chart.entries)
              /\ chart.entries[chart.index].SubAccount) =>
               LocalById(FormatKey("Group", chart.entries[chart.index].ParentRef)) # {}

-----------------------------------------------------------------------------
(* _get and _refresh_tokens: one request to the QuickBooks API, with the   *)
(* 401 handling.  get.depth is the number of _get frames on the stack;     *)
(* sent, unauthorized and refreshes count what the outermost call caused.  *)

\* The requests the run makes through _get.
Requests == {"count query", "page query", "GeneralLedger report"}

\* The status codes requests.get answers with.
StatusCodes == {200, 401, 500}

\* The API rejects at most this many access tokens as expired.
MaxExpiries == 3

\* self._get(*args, **kwargs) is called.
GetCall(args) ==
    /\ get.pc \in {"idle", "returned", "raised"}
    /\ get' = [get EXCEPT !.pc = "request", !.args = args, !.depth = 1, !.sent = 0,
                          !.unauthorized = 0, !.refreshes = 0, !.response = NoValue]
    /\ UNCHANGED <<accounts, journal_entries, sales_invoices, purchase_invoices, general_ledger, loop, error_log>>
    /\ UNCHANGED <<chart, report, fetch, run, call>>

\* response = requests.get(*args, **kwargs) with the current access token;
\* "if response.status_code == 401" sends the frame to _refresh_tokens.
RequestsGet(status_code) ==
    /\ get.pc = "request"
    /\ status_code = 401 => get.access_token < MaxExpiries
    /\ get' = [get EXCEPT !.response = status_code,
                          !.sent = @ + 1,
                          !.unauthorized = IF status_code = 401 THEN @ + 1 ELSE @,
                          !.pc = IF status_code = 401 THEN "refresh" ELSE "return"]
    /\ UNCHANGED <<accounts, journal_entries, sales_invoices, purchase_invoices, general_ledger, loop, error_log>>
    /\ UNCHANGED <<chart, report, fetch, run, call>>

\* requests.get raises (no connection): the exception leaves every frame.
RequestsGetRaises ==
    /\ get.pc = "request"
    /\ get' = [get EXCEPT !.pc = "raised", !.sent = @ + 1, !.depth = 0]
    /\ UNCHANGED <<accounts, journal_entries, sales_invoices, purchase_invoices, general_ledger, loop, error_log>>
    /\ UNCHANGED <<chart, report, fetch, run, call>>

\* self._refresh_tokens(), then "response = self._get(*args, **kwargs)": a new
\* frame; or the token endpoint refuses and the exception leaves every frame.
_refresh_tokens(granted) ==
    /\ get.pc = "refresh"
    /\ get' = IF granted
              THEN [get EXCEPT !.access_token = @ + 1, !.refreshes = @ + 1,
                               !.depth = @ + 1, !.pc = "request"]
              ELSE [get EXCEPT !.pc = "raised", !.depth = 0]
    /\ UNCHANGED <<accounts, journal_entries, sales_invoices, purchase_invoices, general_ledger, loop, error_log>>
    /\ UNCHANGED <<chart, report, fetch, run, call>>

\* "return response": the frame hands the response to the frame that called it.
GetReturn ==
    /\ get.pc = "return"
    /\ get' = IF get.depth > 1 THEN [get EXCEPT !.depth = @ - 1]
              ELSE [get EXCEPT !.depth = 0, !.pc = "returned"]
    /\ UNCHANGED <<accounts, journal_entries, sales_invoices, purchase_invoices, general_ledger, loop, error_log>>
    /\ UNCHANGED <<chart, report, fetch, run, call>>

InitGet ==
    /\ get = [pc |-> "idle", args |-> NoValue, access_token |-> 0, depth |-> 0, sent |-> 0,
              unauthorized |-> 0, refreshes |-> 0, response |-> NoValue]
    /\ accounts = <<>> /\ journal_entries = {} /\ sales_invoices = {} /\ purchase_invoices = {} /\ general_ledger = <<>>
    /\ loop = Unused /\ error_log = <<>>
    /\ chart = Unused /\ report = Unused /\ fetch = Unused /\ run = Unused /\ call = Unused

NextGet ==
    \/ \E args \in Requests : GetCall(args)
    \/ \E status_code \in StatusCodes : RequestsGet(status_code)
    \/ RequestsGetRaises
    \/ \E granted \in BOOLEAN : _refresh_tokens(granted)
    \/ GetReturn

SpecGet == InitGet /\ [][NextGet]_vars

\* C7: a call of _get refreshes the credentials at most once and sends the
\* request at most twice; once the request has been answered 401 a second
\* time, the call has failed with an error.
C7_OneRefreshOneRetry ==
    /\ get.refreshes <= 1
    /\ get.sent <= 2
    /\ get.unauthorized >= 2 => get.pc = "raised"

\* One 401, one refresh, and the retried request answered 200 to the caller.
C7_Witness ==
    /\ get.pc = "returned" /\ get.response = 200
    /\ get.unauthorized = 1 /\ get.refreshes = 1 /\ get.sent = 2

-----------------------------------------------------------------------------
(* The General Ledger report: _get_gl_entries_from_section and the         *)
(* regrouping of _fetch_general_ledger.  A row of the report is a record   *)
(* [type, Header, ColData, Rows]; Header is <<>> when the row has none,    *)
(* else <<[id, value]>> with id = <<>> when the header cell has no "id".   *)
(* self.gl_entries is the list of [account, entries] in insertion order.   *)

\* self.accounts as _preprocess_accounts left it: QuickBooks name to Id.
self_accounts == [n \in {"Cash on hand", "Sales"} |-> IF n = "Sales" THEN "4" ELSE "1"]

\* The ledger line of one Data row.
GLEntry(account, data) ==
    [account |-> account, date |-> data.tx_date, type |-> data.txn_type, id |-> data.txn_id,
     credit |-> flt(data.credit_amt), debit |-> flt(data.debt_amt),
     customer |-> data.cust_name, vendor |-> data.vend_name, currency |-> data.currency,
     debt_home_amt |-> data.debt_home_amt, credit_home_amt |-> data.credit_home_amt]

\* self.gl_entries.setdefault(account, []).extend(entries)
GLExtend(gl_entries, account, entries) ==
    IF \E i \in 1..Len(gl_entries) : gl_entries[i].account = account
    THEN [i \in 1..Len(gl_entries) |->
             IF gl_entries[i].account = account
             THEN [gl_entries[i] EXCEPT !.entries = @ \o entries]
             ELSE gl_entries[i]]
    ELSE Append(gl_entries, [account |-> account, entries |-> entries])

\* The account context a section's header sets: the account, or a skip
\* ("return"), or an exception (IndexError, KeyError).
SectionAccount(accts, section, account) ==
    LET header == section.Header[1]
        by_id == _get_account_name_by_id(accts, header.id[1])
        by_name == _get_account_name_by_id(accts, self_accounts[header.value])
        is(a) == [skip |-> FALSE, raised |-> a = Unresolved, account |-> a]
    IN IF section.Header = <<>> THEN is(account)
       ELSE IF header.id # <<>> THEN is(by_id)
       ELSE IF header.value # ""
       THEN IF header.value = "Not Specified"
            THEN [skip |-> TRUE, raised |-> FALSE, account |-> account]
            ELSE IF header.value \notin DOMAIN self_accounts THEN is(Unresolved)
            ELSE is(by_name)
       ELSE is(account)

\* _get_gl_entries_from_section(section, account), on st = [gl_entries, raised];
\* SectionRows is its loop over section["Rows"]["Row"].
RECURSIVE _get_gl_entries_from_section(_, _, _, _)
RECURSIVE SectionRows(_, _, _, _, _)
SectionRows(accts, st, rows, account, entries) ==
    IF st.raised THEN st
    ELSE IF rows = <<>>
    THEN [st EXCEPT !.gl_entries = GLExtend(@, account, entries)]
    ELSE LET row == Head(rows)
         IN SectionRows(accts,
                IF row.type = "Section"
                THEN _get_gl_entries_from_section(accts, st, row, account)
                ELSE st,
                Tail(rows), account,
                IF row.type = "Data" THEN Append(entries, GLEntry(account, row.ColData))
                ELSE entries)

_get_gl_entries_from_section(accts, st, section, account) ==
    LET context == SectionAccount(accts, section, account)
    IN IF context.raised THEN [st EXCEPT !.raised = TRUE]
       ELSE IF context.skip THEN st
       ELSE SectionRows(accts, st, section.Rows, context.account, <<>>)

\* The loop of _fetch_general_ledger that files every line under its
\* (type, id): the buckets in the order their first line is met.
RECURSIVE FileLines(_, _)
FileLines(ledger, lines) ==
    IF lines = <<>> THEN ledger
    ELSE LET line == Head(lines)
             at == {i \in 1..Len(ledger) : ledger[i].type = line.type /\ ledger[i].id = line.id}
         IN FileLines(
                IF at = {}
                THEN Append(ledger, [type |-> line.type, id |-> line.id, date |-> line.date,
                                     lines |-> <<line>>])
                ELSE [i \in 1..Len(ledger) |->
                         IF i \in at THEN [ledger[i] EXCEPT !.lines = Append(@, line)]
                         ELSE ledger[i]],
                Tail(lines))

RECURSIVE AllEntries(_)
AllEntries(gl_entries) ==
    IF gl_entries = <<>> THEN <<>>
    ELSE Head(gl_entries).entries \o AllEntries(Tail(gl_entries))

\* The regrouping of the lines of the first account only.
GeneralLedgerOfFirstAccount(gl_entries) ==
    FileLines(<<>>, IF gl_entries = <<>> THEN <<>> ELSE Head(gl_entries).entries)

GeneralLedgerOf(gl_entries) == FileLines(<<>>, AllEntries(gl_entries))

\* Rows of a report.
DataRow(txn_type, txn_id, debt_amt, credit_amt) ==
    [type |-> "Data", Header |-> <<>>, Rows |-> <<>>,
     ColData |-> [tx_date |-> "2024-01-05", txn_type |-> txn_type, txn_id |-> txn_id,
                  credit_amt |-> credit_amt, debt_amt |-> debt_amt,
                  cust_name |-> <<>>, vend_name |-> <<>>, currency |-> "AED",
                  debt_home_amt |-> debt_amt, credit_home_amt |-> credit_amt]]

Section(id, value, rows) ==
    [type |-> "Section", Header |-> <<[id |-> id, value |-> value]>>, Rows |-> rows,
     ColData |-> <<>>]

\* The sections a report is drawn from: an account by id; an account by name
\* only; "Not Specified" without an id, with a section nested in it; "Not
\* Specified" with an id; an account with a "Not Specified" section nested
\* in it; an account that was not migrated; a section whose header cell has
\* no id and an empty value.
ReportSections ==
    { Section(<<"1">>, "Cash on hand", << DataRow("Journal Entry", "5", <<10000>>, <<>>) >>),
      Section(<<>>, "Sales", << DataRow("Journal Entry", "5", <<>>, <<10000>>) >>),
      Section(<<>>, "Not Specified",
              << DataRow("Deposit", "6", <<20000>>, <<>>),
                 Section(<<"3">>, "Bank charges", << DataRow("Deposit", "6", <<>>, <<20000>>) >>) >>),
      Section(<<"3">>, "Not Specified", << DataRow("Tax Payment", "7", <<30000>>, <<>>) >>),
      Section(<<"4">>, "Sales",
              << Section(<<>>, "Not Specified", << DataRow("Invoice", "8", <<>>, <<40000>>) >>),
                 DataRow("Invoice", "8", <<>>, <<50000>>) >>),
      Section(<<"9">>, "Suspense", << DataRow("Journal Entry", "5", <<60000>>, <<>>) >>),
      Section(<<>>, "", << DataRow("Transfer", "9", <<70000>>, <<>>) >>) }

MaxSections == 2

\* _fetch_general_ledger has the response: self.gl_entries = {} and the loop
\* over response.json()["Rows"]["Row"] begins.
FetchGeneralLedger(rows) ==
    /\ report.pc \in {"idle", "parsed", "failed"}
    /\ report' = [pc |-> "parsing", rows |-> rows, index |-> 1, gl_entries |-> <<>>]
    /\ error_log' = <<>>
    /\ UNCHANGED <<accounts, journal_entries, sales_invoices, purchase_invoices, general_ledger, loop>>
    /\ UNCHANGED <<chart, get, fetch, run, call>>

\* One turn of "for section in response.json()["Rows"]["Row"]".  An exception
\* ends the try block: it is logged and self.general_ledger is not assigned.
ParseSection ==
    /\ report.pc = "parsing"
    /\ report.index <= Len(report.rows)
    /\ LET section == report.rows[report.index]
           st == IF section.type = "Section"
                 THEN _get_gl_entries_from_section(accounts,
                          [gl_entries |-> report.gl_entries, raised |-> FALSE],
                          section, NoValue)
                 ELSE [gl_entries |-> report.gl_entries, raised |-> FALSE]
       IN IF st.raised
          THEN /\ report' = [report EXCEPT !.pc = "failed"]
               /\ error_log' = Append(error_log, "GeneralLedger")
          ELSE /\ report' = [report EXCEPT !.index = @ + 1, !.gl_entries = st.gl_entries]
               /\ UNCHANGED error_log
    /\ UNCHANGED <<accounts, journal_entries, sales_invoices, purchase_invoices, general_ledger, loop>>
    /\ UNCHANGED <<chart, get, fetch, run, call>>

\* The sections are exhausted: self.general_ledger is built from self.gl_entries.
BuildGeneralLedger ==
    /\ report.pc = "parsing"
    /\ report.index > Len(report.rows)
    /\ general_ledger' = GeneralLedgerOf(report.gl_entries)
    /\ report' = [report EXCEPT !.pc = "parsed"]
    /\ UNCHANGED <<accounts, journal_entries, sales_invoices, purchase_invoices, loop, error_log>>
    /\ UNCHANGED <<chart, get, fetch, run, call>>

InitGL ==
    /\ accounts = StoreAccounts
    /\ report = [pc |-> "idle", rows |-> <<>>, index |-> 0, gl_entries |-> <<>>]
    /\ general_ledger = <<>>
    /\ error_log = <<>>
    /\ journal_entries = {} /\ sales_invoices = {} /\ purchase_invoices = {} /\ loop = Unused
    /\ chart = Unused /\ get = Unused /\ fetch = Unused /\ run = Unused /\ call = Unused

NextGL ==
    \/ \E rows \in SeqUpTo(ReportSections, MaxSections) : FetchGeneralLedger(rows)
    \/ ParseSection
    \/ BuildGeneralLedger

SpecGL == InitGL /\ [][NextGL]_vars

\* The report without its "Not Specified" sections, at every depth.
RECURSIVE WithoutNotSpecified(_)
WithoutNotSpecified(rows) ==
    IF rows = <<>> THEN <<>>
    ELSE LET row == Head(rows)
             rest == WithoutNotSpecified(Tail(rows))
         IN IF row.type = "Section" /\ row.Header # <<>> /\ row.Header[1].value = "Not Specified"
            THEN rest
            ELSE <<[row EXCEPT !.Rows = WithoutNotSpecified(@)]>> \o rest

\* self.gl_entries after all the sections of a report.
RECURSIVE ParseReport(_, _, _)
ParseReport(accts, st, rows) ==
    IF st.raised \/ rows = <<>> THEN st
    ELSE ParseReport(accts,
                     IF Head(rows).type = "Section"
                     THEN _get_gl_entries_from_section(accts, st, Head(rows), NoValue)
                     ELSE st,
                     Tail(rows))

\* C9: a parsed report yields the ledger lines it would yield with every
\* "Not Specified" section removed, whether the section's header has an
\* id or not: such a section contributes no line and its siblings are parsed
\* as if it were absent.
C9_NotSpecifiedSkipped ==
    report.pc = "parsed" =>
        report.gl_entries =
            ParseReport(accounts, [gl_entries |-> <<>>, raised |-> FALSE],
                        WithoutNotSpecified(report.rows)).gl_entries

\* A "Not Specified" section without an id was skipped, nested section and
\* all, and the section after it was parsed.
C9_Witness ==
    /\ report.pc = "parsed"
    /\ Len(report.rows) = 2
    /\ report.rows[1].Header[1] = [id |-> <<>>, value |-> "Not Specified"]
    /\ report.rows[2].Header[1].value = "Sales"
    /\ report.gl_entries # <<>>
    /\ \A i \in 1..Len(general_ledger) : general_ledger[i].type # "Deposit"

\* The section is one the parser returns from at once: no id in its header
\* cell, and the value "Not Specified".
IsSkippedSection(row) ==
    /\ row.type = "Section" /\ row.Header # <<>>
    /\ row.Header[1].id = <<>> /\ row.Header[1].value = "Not Specified"

\* What identifies a Data row among the ledger lines: its transaction type
\* and id and its amounts.
RowKey(data) ==
    [type |-> data.txn_type, id |-> data.txn_id,
     debit |-> flt(data.debt_amt), credit |-> flt(data.credit_amt)]

LineKey(line) == [type |-> line.type, id |-> line.id, debit |-> line.debit, credit |-> line.credit]

\* The Data rows of the sections of a report, those inside skipped sections
\* left out.
RECURSIVE DataRowsOutsideSkipped(_)
DataRowsOutsideSkipped(rows) ==
    IF rows = <<>> THEN <<>>
    ELSE LET row == Head(rows)
         IN (CASE row.type = "Data" -> <<RowKey(row.ColData)>>
               [] IsSkippedSection(row) -> <<>>
               [] OTHER -> DataRowsOutsideSkipped(row.Rows))
            \o DataRowsOutsideSkipped(Tail(rows))

\* The lines of all the buckets of the regrouped index.
RECURSIVE IndexLines(_)
IndexLines(ledger) ==
    IF ledger = <<>> THEN <<>> ELSE Head(ledger).lines \o IndexLines(Tail(ledger))

Count(seq, x) == Cardinality({i \in 1..Len(seq) : seq[i] = x})

\* C23: once a report is parsed, every bucket of the regrouped index holds
\* lines of its own transaction type and id only, no two buckets share a
\* type and id, every Data row outside the skipped sections has its line
\* in the index as many times as the report has the row, and the buckets
\* hold as many lines as the grouping by account.
C23_EveryRowOnceInItsBucket ==
    report.pc = "parsed" =>
        LET index == IndexLines(general_ledger)
            keys == [k \in 1..Len(index) |-> LineKey(index[k])]
            data == DataRowsOutsideSkipped(report.rows)
        IN /\ \A b \in 1..Len(general_ledger) : \A k \in 1..Len(general_ledger[b].lines) :
                  /\ general_ledger[b].lines[k].type = general_ledger[b].type
                  /\ general_ledger[b].lines[k].id = general_ledger[b].id
           /\ \A b, c \in 1..Len(general_ledger) :
                  (general_ledger[b].type = general_ledger[c].type
                     /\ general_ledger[b].id = general_ledger[c].id) => b = c
           /\ \A r \in Range(data) \cup Range(keys) : Count(keys, r) = Count(data, r)
           /\ Len(index) = Len(AllEntries(report.gl_entries))

\* Two accounts have a line of Journal Entry 5 each, and the two lines are in
\* one bucket.
C23_Witness ==
    /\ report.pc = "parsed"
    /\ Len(report.gl_entries) = 2
    /\ \E b \in 1..Len(general_ledger) :
           /\ general_ledger[b].type = "Journal Entry" /\ general_ledger[b].id = "5"
           /\ Len(general_ledger[b].lines) = 2
           /\ general_ledger[b].lines[1].account # general_ledger[b].lines[2].account

\* The ledger lines of the Data rows that lie under a section whose header
\* identifies an account, each with the account of the nearest such section;
\* account is the one the enclosing sections give, NoValue when they give none.
RECURSIVE LinesUnderAccounts(_, _, _)
LinesUnderAccounts(accts, rows, account) ==
    IF rows = <<>> THEN <<>>
    ELSE LET row == Head(rows)
         IN (CASE row.type = "Data" ->
                      IF account = NoValue THEN <<>>
                      ELSE <<[key |-> RowKey(row.ColData), account |-> account]>>
               [] IsSkippedSection(row) -> <<>>
               [] OTHER ->
                      LinesUnderAccounts(accts, row.Rows,
                                         SectionAccount(accts, row, account).account))
            \o LinesUnderAccounts(accts, Tail(rows), account)

\* C24: every ledger line the parser has emitted carries an account, the one
\* of the nearest enclosing section whose header identifies an account, and
\* a Data row under no such section has no ledger line.
C24_EveryLineHasItsSectionAccount ==
    LET lines == AllEntries(report.gl_entries)
        emitted == [k \in 1..Len(lines) |-> [key |-> LineKey(lines[k]), account |-> lines[k].account]]
        expected == LinesUnderAccounts(accounts, report.rows, NoValue)
    IN /\ \A k \in 1..Len(lines) : lines[k].account # NoValue
       /\ \A i \in 1..Len(report.gl_entries) : report.gl_entries[i].account # NoValue
       /\ report.pc = "parsed" =>
              \A e \in Range(emitted) \cup Range(expected) :
                  Count(emitted, e) = Count(expected, e)

-----------------------------------------------------------------------------
(* _migrate_entries(entity): the count query, the page queries and the     *)
(* hand-over to _preprocess_entries and _save_entries.  The API holds      *)
(* fetch.records records of the entity, numbered by position from 1.       *)

max_result_count == 1000

\* The largest number of records the API holds.
MaxCount == 2001

\* list(range(start, stop, step)) for a positive step
range(start, stop, step) ==
    [k \in 1..(IF stop > start THEN (stop - start + step - 1) \div step ELSE 0) |->
        start + (k - 1) * step]

\* range(1, entry_count, max_result_count): the last position left out.
PageStartsShort(entry_count) == range(1, entry_count, max_result_count)

\* The start positions of "for start_position in range(1, entry_count + 1, max_result_count)"
PageStarts(entry_count) == range(1, entry_count + 1, max_result_count)

\* What the API answers to "SELECT * FROM entity STARTPOSITION s MAXRESULTS m".
QueryResponse(records, start_position, max_results) ==
    [i \in 1..(IF records >= start_position
               THEN (IF records - start_position + 1 < max_results
                     THEN records - start_position + 1 ELSE max_results)
               ELSE 0) |-> start_position + i - 1]

\* How a request through _get ends: a usable body, a body without the
\* expected keys, or an exception from _get.
Answers == {"ok", "unusable", "raise"}

NoFetch == [pc |-> "idle", entity |-> NoValue, records |-> 0, queries |-> <<>>,
            entry_count |-> 0, starts |-> <<>>, entries |-> <<>>, handed |-> <<>>]

\* _migrate_entries(entity) is called.
MigrateEntries(entity, records) ==
    /\ fetch.pc = "idle"
    /\ fetch' = [pc |-> "count", entity |-> entity, records |-> records, queries |-> <<>>,
                 entry_count |-> 0, starts |-> <<>>, entries |-> <<>>, handed |-> <<>>]
    /\ error_log' = <<>>
    /\ UNCHANGED <<accounts, journal_entries, sales_invoices, purchase_invoices, general_ledger, loop>>
    /\ UNCHANGED <<chart, get, report, run, call>>

\* "SELECT COUNT(*) FROM entity" and entry_count.  A body without totalCount
\* is logged by the handler; when _get raised, response is unbound and the
\* handler's response.text raises in its turn.
CountQuery(answer) ==
    /\ fetch.pc = "count"
    /\ LET sent == [fetch EXCEPT !.queries = Append(@, [query |-> "count", start |-> 0,
                                                         maxresults |-> 0])]
       IN /\ fetch' = CASE answer = "ok" ->
                              [sent EXCEPT !.entry_count = fetch.records,
                                           !.starts = PageStarts(fetch.records),
                                           !.pc = "pages"]
                        [] answer = "unusable" -> [sent EXCEPT !.pc = "logged"]
                        [] answer = "raise" -> [sent EXCEPT !.pc = "raised"]
          /\ error_log' = IF answer = "unusable" THEN Append(error_log, fetch.entity)
                          ELSE error_log
    /\ UNCHANGED <<accounts, journal_entries, sales_invoices, purchase_invoices, general_ledger, loop>>
    /\ UNCHANGED <<chart, get, report, run, call>>

\* One turn of the page loop: the query and entries.extend(..).  Any failure
\* is logged by the handler, response being bound by now.
PageQuery(answer) ==
    /\ fetch.pc = "pages"
    /\ fetch.starts # <<>>
    /\ LET start_position == Head(fetch.starts)
           sent == [fetch EXCEPT !.queries = Append(@, [query |-> "page",
                                                         start |-> start_position,
                                                         maxresults |-> max_result_count])]
       IN /\ fetch' = IF answer = "ok"
                      THEN [sent EXCEPT !.entries = @ \o QueryResponse(fetch.records,
                                                         start_position, max_result_count),
                                        !.starts = Tail(@)]
                      ELSE [sent EXCEPT !.pc = "logged"]
          /\ error_log' = IF answer = "ok" THEN error_log ELSE Append(error_log, fetch.entity)
    /\ UNCHANGED <<accounts, journal_entries, sales_invoices, purchase_invoices, general_ledger, loop>>
    /\ UNCHANGED <<chart, get, report, run, call>>

\* The pages are exhausted: _preprocess_entries and _save_entries get the list.
\* (_preprocess_tax_codes keeps the list as it is and _save_tax_code stores nothing.)
HandOver ==
    /\ fetch.pc = "pages"
    /\ fetch.starts = <<>>
    /\ fetch' = [fetch EXCEPT !.handed = fetch.entries, !.pc = "saved"]
    /\ UNCHANGED <<accounts, journal_entries, sales_invoices, purchase_invoices, general_ledger, loop, error_log>>
    /\ UNCHANGED <<chart, get, report, run, call>>

\* The call is over: it returned, or its exception went to the caller.
MigrateEntriesEnds ==
    /\ fetch.pc \in {"saved", "logged", "raised"}
    /\ fetch' = NoFetch
    /\ UNCHANGED <<accounts, journal_entries, sales_invoices, purchase_invoices, general_ledger, loop, error_log>>
    /\ UNCHANGED <<chart, get, report, run, call>>

InitFetch ==
    /\ fetch = NoFetch
    /\ error_log = <<>>
    /\ accounts = <<>> /\ journal_entries = {} /\ sales_invoices = {} /\ purchase_invoices = {} /\ general_ledger = <<>>
    /\ loop = Unused /\ chart = Unused /\ get = Unused /\ report = Unused /\ run = Unused /\ call = Unused

NextFetch ==
    \/ \E records \in 0..MaxCount : MigrateEntries("TaxCode", records)
    \/ \E answer \in Answers : CountQuery(answer)
    \/ \E answer \in Answers : PageQuery(answer)
    \/ HandOver
    \/ MigrateEntriesEnds

SpecFetch == InitFetch /\ [][NextFetch]_vars

\* The positions a page query asks for.
Covers(query, position) ==
    query.start <= position /\ position < query.start + query.maxresults

-----------------------------------------------------------------------------
(* _migrate: one whole run.  The QuickBooks company of the run has the     *)
(* chart RunChart, the tax rates RunTaxRates, the tax codes RunTaxCodes    *)
(* and the General Ledger report RunReport; the local company starts with  *)
(* its standard accounts.  self.status is run.status, and run.statuses     *)
(* lists what set_indicator was called with during the run in progress.    *)
(* Fiscal Year and UOM documents are outside the modelled store, so        *)
(* _create_fiscal_years shows by its error log row only and                *)
(* _allow_fraction_in_unit not at all.                                     *)

\* roots of _make_root_accounts
Roots == <<"Asset", "Equity", "Expense", "Liability", "Income">>

\* _make_root_accounts(): every root is inserted unless it exists; an insert
\* that raises is logged and the loop goes on (failing: the roots it raises for).
RECURSIVE MakeRoots(_, _, _)
MakeRoots(db, i, failing) ==
    IF i > Len(Roots) THEN db
    ELSE LET name == encode_company_abbr(Roots[i] \o " - QB")
         IN MakeRoots(IF AccountByName(db.accounts, name) # <<>> THEN db
                      ELSE IF Roots[i] \in failing THEN _log_error(db, Roots[i])
                      ELSE [db EXCEPT !.accounts =
                               Append(@, Account(NoValue, name, "AED", NoValue, 0, NoValue, 1))],
                      i + 1, failing)

_make_root_accounts(db, failing) == MakeRoots(db, 1, failing)

\* _save_tax_rate(tax_rate): the whole body is inside the try.
_save_tax_rate(db, tax_rate, env) ==
    IF AccountsById(db.accounts, FormatKey("TaxRate", tax_rate.Id)) # <<>> THEN db
    ELSE IF env.first = "raise" THEN _log_error(db, tax_rate.Id)
    ELSE [db EXCEPT !.accounts =
             Append(@, Account(FormatKey("TaxRate", tax_rate.Id),
                               encode_company_abbr(tax_rate.Name \o " - QB"),
                               "AED", "Tax", tax_rate.RateValue,
                               encode_company_abbr("Liability - QB"), 0))]

\* _save_tax_code(tax_code): pass
_save_tax_code(db, tax_code) == db

\* _preprocess_entries(entity, entries); the tax rate and tax code
\* preprocessors return the list as it is.
_preprocess_entries(entity, entries) ==
    IF entity = "Account" THEN _preprocess_accounts(entries) ELSE entries

\* The company in QuickBooks, as the API lists it.
RunChart ==
    << QBAccount("3", "Bank charges", "Expense", FALSE, NoValue),
       QBAccount("1", "Cash on hand", "Bank", FALSE, NoValue) >>

RunTaxRates == << [Id |-> "1", Name |-> "VAT", RateValue |-> 5] >>

RunTaxCodes == << [Id |-> "5"] >>

RunRecords(entity) ==
    CASE entity = "Account" -> RunChart
      [] entity = "TaxRate" -> RunTaxRates
      [] entity = "TaxCode" -> RunTaxCodes

\* The General Ledger report of the company: an Advance Payment and a Tax
\* Payment, each a debit of one account and a credit of the other, and a
\* Journal Entry, a kind the run does not rebuild from the ledger.
RunReport ==
    << Section(<<"1">>, "Cash on hand",
               << DataRow("Advance Payment", "20", <<>>, <<367000>>),
                  DataRow("Tax Payment", "21", <<>>, <<50000>>),
                  DataRow("Journal Entry", "5", <<10000>>, <<>>) >>),
       Section(<<"3">>, "Bank charges",
               << DataRow("Advance Payment", "20", <<367000>>, <<>>),
                  DataRow("Tax Payment", "21", <<50000>>, <<>>),
                  DataRow("Journal Entry", "5", <<>>, <<10000>>) >>) >>

\* The local company before the first run: its standard accounts.
RunAccounts ==
    << Account(NoValue, "Cash - NX", "AED", "Cash", 0, NoValue, 0),
       Account(NoValue, "Bank charges - NX", "AED", NoValue, 0, NoValue, 0) >>

\* The steps of _migrate after set_indicator("In Progress"), in order:
\* _make_root_accounts, _migrate_entries for the three entities of
\* _migrate_accounts, _fetch_general_ledger, _create_fiscal_years and
\* _migrate_entries_from_gl for entities_for_gl_transform.
RunSteps ==
    <<"_make_root_accounts", "Account", "TaxRate", "TaxCode",
      "_fetch_general_ledger", "_create_fiscal_years",
      "Supplier Credit", "Advance Payment", "Tax Payment", "Sales Tax Payment",
      "Purchase Tax Payment", "Inventory Qty Adjust">>

\* The largest number of runs.
MaxMigrations == 2

RunStep == IF run.pc = "running" /\ run.step <= Len(RunSteps) THEN RunSteps[run.step]
           ELSE NoValue

\* Storage answering every call of one transformer call.
AllOk == [first |-> "ok", second |-> "ok"]

\* entity_method_map[entity](entry) for the entities of _migrate_accounts, and
\* _save_entity_as_je for a ledger kind; answers are those of the first and
\* the second storage call (insert and submit for a Journal Entry).
RunTransform(entity, db, entry, answers) ==
    CASE entity = "Account" -> Returned(_save_account(db, entry, answers))
      [] entity = "TaxRate" -> Returned(_save_tax_rate(db, entry, answers))
      [] entity = "TaxCode" -> Returned(_save_tax_code(db, entry))
      [] entity \in GLEntities ->
             _save_entity_as_je(db, entity, entry,
                                [insert |-> answers.first, submit |-> answers.second])

\* "for index, entry in enumerate(entries, start=1)" from position i on;
\* storage answers the calls for entry number bad with answers.
RECURSIVE SaveEach(_, _, _, _, _, _)
SaveEach(entity, db, entries, i, bad, answers) ==
    IF i > Len(entries) THEN Returned(db)
    ELSE LET res == RunTransform(entity, db, entries[i], IF i = bad THEN answers ELSE AllOk)
         IN IF res.raised THEN res
            ELSE SaveEach(entity, res.db, entries, i + 1, bad, answers)

\* The entries the page queries return for the records the API holds.
FetchedEntries(records) ==
    LET starts == PageStarts(Len(records))
    IN Flatten([k \in 1..Len(starts) |->
                   LET page == QueryResponse(Len(records), starts[k], max_result_count)
                   IN [i \in 1..Len(page) |-> records[page[i]]]])

NoRun == [pc |-> "idle", step |-> 0, n |-> 0, healthy |-> TRUE, status |-> NoValue,
          statuses |-> <<>>, phase_failed |-> FALSE, has_general_ledger |-> FALSE,
          has_gl_entries |-> FALSE, gl_entries |-> <<>>, before |-> {}]

\* set_indicator(status)
set_indicator(r, status) == [r EXCEPT !.status = status, !.statuses = Append(@, status)]

\* The step returned: on to the next one.
StepReturns(r) == [r EXCEPT !.step = @ + 1]

\* An exception left the step: on to the handler of _migrate.
StepRaises(r) == [r EXCEPT !.pc = "raised"]

\* migrate() enqueues _migrate, which starts on a fresh document object:
\* set_indicator("In Progress").  "healthy" says that nothing fails during
\* this run: every request is answered with a usable body and storage
\* raises on no call.  run.before is the Journal Entry table the run finds.
Migrate(healthy) ==
    /\ run.pc \in {"idle", "ended"}
    /\ run.n < MaxMigrations
    /\ run' = set_indicator([NoRun EXCEPT !.pc = "running", !.step = 1, !.n = run.n + 1,
                                          !.healthy = healthy,
                                          !.before = journal_entries],
                            "In Progress")
    /\ general_ledger' = <<>>
    /\ error_log' = <<>>
    /\ UNCHANGED <<accounts, journal_entries, sales_invoices, purchase_invoices>>
    /\ UNCHANGED <<loop, chart, get, report, fetch, call>>

\* _make_root_accounts()
RunMakeRootAccounts(failing) ==
    /\ RunStep = "_make_root_accounts"
    /\ run.healthy => failing = {}
    /\ SetDb(_make_root_accounts(TheDb, failing))
    /\ run' = StepReturns(run)
    /\ UNCHANGED <<loop, chart, get, report, fetch, call>>

\* _migrate_entries(entity) for an entity of _migrate_accounts: the count
\* query, the page queries (all answered alike), _preprocess_entries and
\* _save_entries.  When the count query's _get raises, response is unbound in
\* the handler and the exception leaves; every other failure is logged by
\* the handler and the run goes on.
RunMigrateEntries(count, page, bad, answers) ==
    /\ RunStep \in {"Account", "TaxRate", "TaxCode"}
    /\ run.healthy => (count = "ok" /\ page = "ok" /\ answers = AllOk)
    /\ LET entity == RunStep
           records == RunRecords(entity)
           paged == PageStarts(Len(records)) # <<>>
           entries == _preprocess_entries(entity, FetchedEntries(records))
           saved == SaveEach(entity, TheDb, entries, 1, bad, answers)
       IN CASE count = "raise" ->
                 /\ run' = StepRaises([run EXCEPT !.phase_failed = TRUE])
                 /\ UNCHANGED <<accounts, journal_entries, sales_invoices, purchase_invoices, general_ledger,
                                error_log>>
            [] count = "unusable" \/ (count = "ok" /\ paged /\ page # "ok") ->
                 /\ run' = StepReturns([run EXCEPT !.phase_failed = TRUE])
                 /\ SetDb(_log_error(TheDb, entity))
            [] OTHER ->
                 /\ run' = StepReturns(run)
                 /\ SetDb(saved.db)
    /\ UNCHANGED <<loop, chart, get, report, fetch, call>>

\* _fetch_general_ledger(): when _get raises, response is unbound in the
\* handler and the exception leaves.  A body without ["Rows"]["Row"] raises
\* after self.gl_entries = {}; a section that raises ends the parsing; both
\* are logged and leave self.general_ledger unassigned.
RunFetchGeneralLedger(answer) ==
    /\ RunStep = "_fetch_general_ledger"
    /\ run.healthy => answer = "ok"
    /\ LET st == ParseReport(accounts, [gl_entries |-> <<>>, raised |-> FALSE], RunReport)
       IN CASE answer = "raise" ->
                 /\ run' = StepRaises([run EXCEPT !.phase_failed = TRUE])
                 /\ UNCHANGED <<general_ledger, error_log>>
            [] answer = "unusable" ->
                 /\ run' = StepReturns([run EXCEPT !.phase_failed = TRUE,
                                                   !.has_gl_entries = TRUE])
                 /\ error_log' = Append(error_log, "GeneralLedger")
                 /\ UNCHANGED general_ledger
            [] answer = "ok" /\ st.raised ->
                 /\ run' = StepReturns([run EXCEPT !.has_gl_entries = TRUE,
                                                   !.gl_entries = st.gl_entries])
                 /\ error_log' = Append(error_log, "GeneralLedger")
                 /\ UNCHANGED general_ledger
            [] OTHER ->
                 /\ run' = StepReturns([run EXCEPT !.has_gl_entries = TRUE,
                                                   !.gl_entries = st.gl_entries,
                                                   !.has_general_ledger = TRUE])
                 /\ general_ledger' = GeneralLedgerOf(st.gl_entries)
                 /\ UNCHANGED error_log
    /\ UNCHANGED <<accounts, journal_entries, sales_invoices, purchase_invoices>>
    /\ UNCHANGED <<loop, chart, get, report, fetch, call>>

\* _create_fiscal_years(): the whole body is inside the try; min() of no
\* ledger line raises and is logged.
RunCreateFiscalYears ==
    /\ RunStep = "_create_fiscal_years"
    /\ error_log' = IF run.has_gl_entries /\ AllEntries(run.gl_entries) # <<>> THEN error_log
                    ELSE Append(error_log, "Fiscal Year")
    /\ run' = StepReturns(run)
    /\ UNCHANGED <<accounts, journal_entries, sales_invoices, purchase_invoices, general_ledger>>
    /\ UNCHANGED <<loop, chart, get, report, fetch, call>>

\* _migrate_entries_from_gl(entity) for a kind of entities_for_gl_transform;
\* "entity in self.general_ledger" raises when the attribute was never assigned.
RunMigrateEntriesFromGL(bad, answers) ==
    /\ RunStep \in GLEntities
    /\ run.healthy => answers = AllOk
    /\ LET res == SaveEach(RunStep, TheDb, LedgerEntries(general_ledger, RunStep), 1,
                           bad, answers)
       IN IF ~run.has_general_ledger
          THEN /\ run' = StepRaises(run)
               /\ UNCHANGED <<accounts, journal_entries, sales_invoices, purchase_invoices, general_ledger,
                              error_log>>
          ELSE /\ run' = IF res.raised THEN StepRaises(run) ELSE StepReturns(run)
               /\ SetDb(res.db)
    /\ UNCHANGED <<loop, chart, get, report, fetch, call>>

\* The steps are done: set_indicator("Complete"), then frappe.db.commit().
MigrateCompletes ==
    /\ run.pc = "running"
    /\ run.step > Len(RunSteps)
    /\ run' = [set_indicator(run, "Complete") EXCEPT !.pc = "ended"]
    /\ UNCHANGED <<accounts, journal_entries, sales_invoices, purchase_invoices, general_ledger, error_log>>
    /\ UNCHANGED <<loop, chart, get, report, fetch, call>>

\* "except Exception as e" of _migrate: set_indicator("Failed"), _log_error(e),
\* then frappe.db.commit().
MigrateExcept ==
    /\ run.pc = "raised"
    /\ run' = [set_indicator(run, "Failed") EXCEPT !.pc = "ended"]
    /\ error_log' = Append(error_log, "_migrate")
    /\ UNCHANGED <<accounts, journal_entries, sales_invoices, purchase_invoices, general_ledger>>
    /\ UNCHANGED <<loop, chart, get, report, fetch, call>>

InitRun ==
    /\ run = NoRun
    /\ accounts = RunAccounts
    /\ journal_entries = {}
    /\ sales_invoices = {} /\ purchase_invoices = {}
    /\ general_ledger = <<>>
    /\ error_log = <<>>
    /\ loop = Unused /\ chart = Unused /\ get = Unused /\ report = Unused /\ fetch = Unused /\ call = Unused

\* The roots whose insert the storage may refuse.
RootInsertFailures == {{}, {"Equity"}}

NextRun ==
    \/ \E healthy \in BOOLEAN : Migrate(healthy)
    \/ \E failing \in RootInsertFailures : RunMakeRootAccounts(failing)
    \/ \E count \in Answers, page \in Answers, bad \in 1..2, answers \in AccountInserts :
           RunMigrateEntries(count, page, bad, answers)
    \/ \E answer \in Answers : RunFetchGeneralLedger(answer)
    \/ RunCreateFiscalYears
    \/ \E bad \in 1..2, answers \in AccountInserts : RunMigrateEntriesFromGL(bad, answers)
    \/ MigrateCompletes
    \/ MigrateExcept

SpecRun == InitRun /\ [][NextRun]_vars

\* C5: a run sets "In Progress" first and then exactly one of "Complete" and
\* "Failed", at its end; and when the count query, a page query or the
\* General Ledger report fetch failed or returned an unusable body during
\* the run, the status it ends with is "Failed".
C5_FailedAfterPhaseFailure ==
    /\ run.pc \in {"running", "raised"} => run.statuses = <<"In Progress">>
    /\ run.pc = "ended" =>
           /\ Len(run.statuses) = 2
           /\ run.statuses[1] = "In Progress"
           /\ run.statuses[2] \in {"Complete", "Failed"}
           /\ run.status = run.statuses[2]
           /\ run.phase_failed => run.status = "Failed"

\* The keys of the ledger buckets the run rebuilds as Journal Entries.
LedgerKeys ==
    {FormatKey(general_ledger[i].type, general_ledger[i].id) :
        i \in {j \in 1..Len(general_ledger) : general_ledger[j].type \in GLEntities}}

\* C6: when a run on which nothing fails ends after an earlier run, every
\* account and tax rate of the source has exactly one local account, every
\* ledger entry of a rebuilt kind has exactly one Journal Entry and that one
\* is submitted, and the submitted entries the run found are still there.
C6_RerunCompletesEverything ==
    (run.pc = "ended" /\ run.n >= 2 /\ run.healthy) =>
        /\ run.status = "Complete"
        /\ \A i \in 1..Len(RunChart) : Len(AccountsById(accounts, RunChart[i].Id)) = 1
        /\ \A i \in 1..Len(RunTaxRates) :
               Len(AccountsById(accounts, FormatKey("TaxRate", RunTaxRates[i].Id))) = 1
        /\ LedgerKeys = {"Advance Payment - 20", "Tax Payment - 21"}
        /\ \A key \in LedgerKeys :
               /\ Cardinality(WithKey(journal_entries, key)) = 1
               /\ \A je \in WithKey(journal_entries, key) : je.docstatus = 1
        /\ \A je \in run.before : je.docstatus = 1 => je \in journal_entries

\* C21: the step in which a fetch (of one entity kind or of the General
\* Ledger report) first fails during a run catches and logs the failure
\* itself and returns, so that the run goes on to its next step; and no
\* later step of that run is cut short by what the failed fetch left behind.
C21_FetchFailureAbortsOnlyThatPhase ==
    [][/\ (run.pc = "running" /\ ~run.phase_failed /\ run'.phase_failed) =>
              /\ run'.pc = "running"
              /\ run'.step = run.step + 1
              /\ Len(error_log') = Len(error_log) + 1
       /\ (RunStep \in GLEntities /\ ~run.has_general_ledger) => run'.pc = "running"]_vars

-----------------------------------------------------------------------------
(* _get_taxes on its own: the tax rows of a document, for every list of    *)
(* tax lines of at most MaxTaxLines lines over the rates of a cascading    *)
(* tax code.  call.at is the line the loop is at, call.taxes the rows      *)
(* emitted so far.                                                         *)

MaxTaxLines == 3

\* Tax code 6: rate 1 on the amount, rate 2 on the row of rate 1, rate 3 on the
\* row of rate 2.
CascadingTaxCodes ==
    << [Id |-> "6",
        SalesTaxRateList |-> << [TaxRateRef |-> "1", TaxTypeApplicable |-> "TaxOnAmount",
                                 TaxOrder |-> 1, TaxOnTaxOrder |-> 0],
                                [TaxRateRef |-> "2", TaxTypeApplicable |-> "TaxOnTax",
                                 TaxOrder |-> 2, TaxOnTaxOrder |-> 1],
                                [TaxRateRef |-> "3", TaxTypeApplicable |-> "TaxOnTax",
                                 TaxOrder |-> 3, TaxOnTaxOrder |-> 2] >>,
        PurchaseTaxRateList |-> <<>>] >>

\* The accounts of the company, with one Tax account per rate: 5, 2 and 3 percent.
TaxChart ==
    StoreAccounts \o
    << Account("TaxRate - 2", "Cess - QB - NX", "AED", "Tax", 2, "Liability - QB - NX", 0),
       Account("TaxRate - 3", "Surcharge - QB - NX", "AED", "Tax", 3, "Liability - QB - NX", 0) >>

\* The TxnTaxDetail.TaxLine entries a document can carry, one per rate.
TaxLines ==
    { [Amount |-> 5000, TaxPercent |-> 5, TaxRateRef |-> "1"],
      [Amount |-> 2000, TaxPercent |-> 2, TaxRateRef |-> "2"],
      [Amount |-> 3000, TaxPercent |-> 3, TaxRateRef |-> "3"] }

TaxLineLists == UNION {[1..n -> TaxLines] : n \in 0..MaxTaxLines}

InitTaxes ==
    /\ accounts = TaxChart
    /\ call \in {[pc |-> "called", tax_lines |-> lines, at |-> 1, taxes |-> <<>>] :
                    lines \in TaxLineLists}
    /\ journal_entries = Unused /\ sales_invoices = Unused /\ purchase_invoices = Unused
    /\ general_ledger = Unused /\ loop = Unused /\ error_log = Unused
    /\ chart = Unused /\ get = Unused /\ report = Unused /\ fetch = Unused /\ run = Unused

\* One turn of "for line in entry['TxnTaxDetail']['TaxLine']".
GetTaxesLine ==
    /\ call.pc = "called"
    /\ call.at <= Len(call.tax_lines)
    /\ LET res == TaxesFrom(accounts, CascadingTaxCodes, <<call.tax_lines[call.at]>>, call.taxes)
       IN call' = IF res.raised THEN [call EXCEPT !.pc = "raised"]
                  ELSE [call EXCEPT !.at = @ + 1, !.taxes = res.taxes]
    /\ UNCHANGED <<accounts, journal_entries, sales_invoices, purchase_invoices, general_ledger,
                   loop, error_log, chart, get, report, fetch, run>>

\* return taxes
GetTaxesReturn ==
    /\ call.pc = "called"
    /\ call.at > Len(call.tax_lines)
    /\ call' = [call EXCEPT !.pc = "returned"]
    /\ UNCHANGED <<accounts, journal_entries, sales_invoices, purchase_invoices, general_ledger,
                   loop, error_log, chart, get, report, fetch, run>>

NextTaxes == GetTaxesLine \/ GetTaxesReturn

SpecTaxes == InitTaxes /\ [][NextTaxes]_vars

\* The k-th row is the row of the k-th tax line; its parent rate is the one
\* _get_parent_tax_rate gives for the rate of that line.
ParentRateOfRow(k) == _get_parent_tax_rate(CascadingTaxCodes, call.tax_lines[k].TaxRateRef)

\* C17: every row emitted with charge type "On Previous Row Amount" has a
\* row_id that is not empty, is smaller than the row's own position, and is
\* the 1-based position of the row emitted for its parent rate.
C17_RowIdIsParentPosition ==
    \A k \in 1..Len(call.taxes) :
        call.taxes[k].charge_type = "On Previous Row Amount" =>
            /\ call.taxes[k].row_id # 0
            /\ call.taxes[k].row_id < k
            /\ call.tax_lines[call.taxes[k].row_id].TaxRateRef = ParentRateOfRow(k)

\* The same of the rows whose parent rate has a row among those emitted before:
\* the row_id is the position of the first of them.
C17_RowIdWhenParentWasEmitted ==
    \A k \in 1..Len(call.taxes) :
        LET before == {i \in 1..(k - 1) : call.tax_lines[i].TaxRateRef = ParentRateOfRow(k)}
        IN call.taxes[k].charge_type = "On Previous Row Amount" =>
               IF before = {} THEN call.taxes[k].row_id = 0
               ELSE /\ call.taxes[k].row_id \in before
                    /\ \A i \in before : call.taxes[k].row_id <= i

-----------------------------------------------------------------------------
(* _get_si_items on its own: the item lines of a sales-side document, for  *)
(* every list of at most MaxItemLines detail lines, of an invoice          *)
(* (is_return FALSE) and of a credit memo (is_return TRUE).  call.at is    *)
(* the line the loop is at, call.items the items emitted so far.           *)

MaxItemLines == 2

\* self.tax_codes: tax code 5 of the company, and a tax code whose id, "1", is
\* also the id of its tax rate.
ItemTaxCodes ==
    StoreTaxCodes \o
    << [Id |-> "1",
        SalesTaxRateList |-> << [TaxRateRef |-> "1", TaxTypeApplicable |-> "TaxOnAmount",
                                 TaxOrder |-> 0, TaxOnTaxOrder |-> 0] >>,
        PurchaseTaxRateList |-> <<>>] >>

\* The detail lines on the shipping sentinel: quantity 0, 1 or 3, a unit price
\* of nothing, of the amount or of something else, and the tax code "1" (there
\* is an account "TaxRate - 1"), "5" or "NON" (there is no account
\* "TaxRate - 5" and none "TaxRate - NON").
ShippingLines ==
    {SalesItemLine("SHIPPING_ITEM_ID", "Shipping", qty, unit_price, 150000, tax_code) :
        qty \in {0, 1, 3}, unit_price \in {0, 150000, 70000}, tax_code \in {"1", "5", "NON"}}

DetailLines == ShippingLines \cup {SalesItemLine("I1", "Widget", 2, 100000, 200000, "NON")}

DetailLineLists == UNION {[1..n -> DetailLines] : n \in 0..MaxItemLines}

InitItems ==
    /\ accounts = StoreAccounts
    /\ call \in {[pc |-> "called", lines |-> lines, is_return |-> is_return, at |-> 1,
                  items |-> <<>>] :
                    lines \in DetailLineLists, is_return \in BOOLEAN}
    /\ journal_entries = Unused /\ sales_invoices = Unused /\ purchase_invoices = Unused
    /\ general_ledger = Unused /\ loop = Unused /\ error_log = Unused
    /\ chart = Unused /\ get = Unused /\ report = Unused /\ fetch = Unused /\ run = Unused

\* One turn of "for line in invoice['Line']".
GetSIItemsLine ==
    /\ call.pc = "called"
    /\ call.at <= Len(call.lines)
    /\ LET invoice == Invoice("7", "C1", <<>>, call.lines)
           res == SIItemsFrom([TheDb EXCEPT !.tax_codes = ItemTaxCodes], invoice,
                              <<call.lines[call.at]>>, call.is_return, call.items)
       IN call' = IF res.raised THEN [call EXCEPT !.pc = "raised"]
                  ELSE [call EXCEPT !.at = @ + 1, !.items = res.items]
    /\ UNCHANGED <<accounts, journal_entries, sales_invoices, purchase_invoices, general_ledger,
                   loop, error_log, chart, get, report, fetch, run>>

\* return items
GetSIItemsReturn ==
    /\ call.pc = "called"
    /\ call.at > Len(call.lines)
    /\ call' = [call EXCEPT !.pc = "returned"]
    /\ UNCHANGED <<accounts, journal_entries, sales_invoices, purchase_invoices, general_ledger,
                   loop, error_log, chart, get, report, fetch, run>>

NextItems == GetSIItemsLine \/ GetSIItemsReturn

SpecItems == InitItems /\ [][NextItems]_vars

IsShippingLine(line) == line.ItemRef.value = "SHIPPING_ITEM_ID"

\* The item-less lines named "Shipping" among the items emitted so far.
ShippingItems == SelectSeq(call.items, LAMBDA it : it.item_code = NoValue /\ it.item_name = "Shipping")

\* The detail lines on the shipping sentinel among those the loop has passed.
ShippingLinesPassed == SelectSeq(SubSeq(call.lines, 1, call.at - 1), IsShippingLine)

\* C18: every detail line on the shipping sentinel produces exactly one
\* item-less shipping line, of quantity 1 and of rate the line's Amount,
\* whatever its quantity and unit price are.
C18_OneShippingLinePerSentinelLine ==
    /\ call.pc = "raised" => ~IsShippingLine(call.lines[call.at])
    /\ Len(ShippingItems) = Len(ShippingLinesPassed)
    /\ \A k \in 1..Len(ShippingItems) :
           /\ ShippingItems[k].qty = 1
           /\ ShippingItems[k].price_list_rate = ShippingLinesPassed[k].Amount

\* What _get_si_items does of them: a line of quantity 0 produces nothing, a
\* line whose tax code names no "TaxRate - .." account ends the call, and any
\* other produces one shipping line of rate Amount, of quantity 1 on an
\* invoice and -1 on a return.
ShippingLinesKept ==
    SelectSeq(SubSeq(call.lines, 1, call.at - 1), LAMBDA l : IsShippingLine(l) /\ l.Qty # 0)

C18_ShippingLinesOfTheCode ==
    /\ call.pc = "raised" =>
           \/ ~IsShippingLine(call.lines[call.at])
           \/ call.lines[call.at].Qty # 0 /\ call.lines[call.at].TaxCodeRef \in {"5", "NON"}
    /\ Len(ShippingItems) = Len(ShippingLinesKept)
    /\ \A k \in 1..Len(ShippingItems) :
           /\ ShippingItems[k].qty = (IF call.is_return THEN -1 ELSE 1)
           /\ ShippingItems[k].price_list_rate = ShippingLinesKept[k].Amount

-----------------------------------------------------------------------------
(* The idempotency keys on their own: the quickbooks_id the run computes   *)
(* for two records, each of any kind and of any id up to MaxId.            *)

MaxId == 3

\* The entities _save_entries has a transaction transformer for.
ApiKinds == {"Invoice", "CreditMemo", "SalesReceipt", "RefundReceipt", "JournalEntry", "Bill",
             "VendorCredit", "Payment", "BillPayment", "Purchase", "Deposit"}

\* The ledger kinds handed to _save_entity_as_je: those the run rebuilds, and
\* "Bill Payment (Cheque)".
LedgerKinds == GLEntities \cup {"Bill Payment (Cheque)"}

\* External ids: "1" .. "<MaxId>", and ids of two digits made of them.
Ids == {ToString(n) : n \in 1..MaxId} \cup {ToString(n) \o ToString(n) : n \in 1..MaxId}

\* quickbooks_id = "<..> - {}".format(record["Id"]), at the head of each
\* transformer of an API entity; _save_entity_as_je for a ledger kind.
KeyOfRecord(kind, id) ==
    CASE kind = "Invoice" -> FormatKey("Invoice", id)
      [] kind = "CreditMemo" -> FormatKey("Credit Memo", id)
      [] kind = "SalesReceipt" -> FormatKey("Sales Receipt", id)
      [] kind = "RefundReceipt" -> FormatKey("Refund Receipt", id)
      [] kind = "JournalEntry" -> FormatKey("Journal Entry", id)
      [] kind = "Bill" -> FormatKey("Bill", id)
      [] kind = "VendorCredit" -> FormatKey("Vendor Credit", id)
      [] kind = "Payment" -> FormatKey("Payment", id)
      [] kind = "BillPayment" -> FormatKey("BillPayment", id)
      [] kind = "Purchase" -> FormatKey("Purchase", id)
      [] kind = "Deposit" -> FormatKey("Deposit", id)
      [] kind \in LedgerKinds -> EntityKey(kind, id)

SourceRecordIds == [kind : ApiKinds \cup LedgerKinds, id : Ids]

InitKeys ==
    /\ call \in {[pc |-> "called", first |-> first, second |-> second, keys |-> <<>>] :
                    first \in SourceRecordIds, second \in SourceRecordIds}
    /\ accounts = Unused
    /\ journal_entries = Unused /\ sales_invoices = Unused /\ purchase_invoices = Unused
    /\ general_ledger = Unused /\ loop = Unused /\ error_log = Unused
    /\ chart = Unused /\ get = Unused /\ report = Unused /\ fetch = Unused /\ run = Unused

\* The two records reach their transformers, which compute their keys.
ComputeKeys ==
    /\ call.pc = "called"
    /\ call' = [call EXCEPT !.pc = "returned",
                            !.keys = << KeyOfRecord(call.first.kind, call.first.id),
                                        KeyOfRecord(call.second.kind, call.second.id) >>]
    /\ UNCHANGED <<accounts, journal_entries, sales_invoices, purchase_invoices, general_ledger,
                   loop, error_log, chart, get, report, fetch, run>>

NextKeys == ComputeKeys

SpecKeys == InitKeys /\ [][NextKeys]_vars

\* The prefixes of the keys.
HumanKinds == {"Invoice", "Credit Memo", "Sales Receipt", "Refund Receipt", "Journal Entry",
               "Bill", "Vendor Credit", "Payment", "BillPayment", "Purchase", "Deposit"}
              \cup GLEntities

\* The ledger kind and the API entity that are one kind of transaction.
BillPaymentPair == {"Bill Payment (Cheque)", "BillPayment"}

-----------------------------------------------------------------------------
(* The posting lines the transformers hand to __save_journal_entry, for    *)
(* every list of at most MaxLines source lines: the detail lines of a      *)
(* JournalEntry, the General Ledger lines of a rebuilt transaction, and    *)
(* the General Ledger lines of an invoice linked to a charge.  call.lines  *)
(* is the source list, call.handed the list handed to the builder.         *)

MaxLines == 2

\* Entity of a JournalEntryLineDetail: a customer, a job of a branch of a
\* customer, a vendor.
LineEntities ==
    { NoEntity,
      [Type |-> "Customer", name |-> <<"Acme">>],
      [Type |-> "Customer", name |-> <<"Acme", "Branch", "Job 7">>],
      [Type |-> "Vendor", name |-> <<"Globex", "Depot">>] }

\* The Line entries of a JournalEntry: on the bank account or on the
\* receivable account in USD, of amount 0 or 10.00.
JournalEntryLines ==
    {JELineDetail(account, amount, posting_type, entity) :
        account \in {"1", "2"}, amount \in {0, 100000},
        posting_type \in {"Debit", "Credit"}, entity \in LineEntities}

\* The General Ledger lines of a transaction: a debit, a credit, a line
\* with every amount zero, a line with a home-currency amount only, and a
\* credit on the receivable account for a job of a branch of a customer.
LedgerLinesOfTransaction ==
    { GLRow("Cash on hand - QB - NX", "Invoice", "8", 100000, 0, "AED", 100000, 0, <<>>, <<>>),
      GLRow("Bank charges - QB - NX", "Invoice", "8", 0, 100000, "AED", 0, 100000, <<>>, <<>>),
      GLRow("Bank charges - QB - NX", "Invoice", "8", 0, 0, "AED", 0, 0, <<>>, <<>>),
      GLRow("Cash on hand - QB - NX", "Invoice", "8", 0, 0, "AED", 20000, 0, <<>>, <<>>),
      GLRow("Accounts Receivable (A/R) - USD - QB - NX", "Invoice", "8",
            0, 100000, "USD", 0, 367000, <<"Acme", "Branch", "Job 7">>, <<>>) }

InitLines ==
    /\ accounts = StoreAccounts
    /\ call \in {[pc |-> "called", transformer |-> "JournalEntry", lines |-> lines,
                  trans_currency |-> currency, exchange_rate |-> 367, handed |-> <<>>] :
                     lines \in SeqUpTo(JournalEntryLines, MaxLines), currency \in {"AED", "USD"}}
              \cup
              {[pc |-> "called", transformer |-> transformer, lines |-> lines,
                trans_currency |-> "USD", exchange_rate |-> 367, handed |-> <<>>] :
                     lines \in SeqUpTo(LedgerLinesOfTransaction, MaxLines),
                     transformer \in {"Ledger", "Invoice"}}
    /\ journal_entries = Unused /\ sales_invoices = Unused /\ purchase_invoices = Unused
    /\ general_ledger = Unused /\ loop = Unused /\ error_log = Unused
    /\ chart = Unused /\ get = Unused /\ report = Unused /\ fetch = Unused /\ run = Unused

\* _save_journal_entry up to its call of __save_journal_entry:
\* accounts = _get_je_accounts(journal_entry["Line"], ..).
JournalEntryHandsOver ==
    /\ call.pc = "called" /\ call.transformer = "JournalEntry"
    /\ LET res == _get_je_accounts(accounts, call.lines, call.trans_currency, call.exchange_rate)
       IN call' = IF res.raised THEN [call EXCEPT !.pc = "raised"]
                  ELSE [call EXCEPT !.pc = "handed", !.handed = res.accounts]
    /\ UNCHANGED <<accounts, journal_entries, sales_invoices, purchase_invoices, general_ledger,
                   loop, error_log, chart, get, report, fetch, run>>

\* __save_ledger_entry_as_je up to its call of __save_journal_entry, which
\* it makes when there is a line left.
LedgerEntryHandsOver ==
    /\ call.pc = "called" /\ call.transformer = "Ledger"
    /\ call' = IF GLRaises(accounts, call.lines) THEN [call EXCEPT !.pc = "raised"]
               ELSE IF GLAccounts(accounts, call.lines) = <<>>
               THEN [call EXCEPT !.pc = "returned"]
               ELSE [call EXCEPT !.pc = "handed", !.handed = GLAccounts(accounts, call.lines)]
    /\ UNCHANGED <<accounts, journal_entries, sales_invoices, purchase_invoices, general_ledger,
                   loop, error_log, chart, get, report, fetch, run>>

\* _save_invoice_as_journal_entry up to its call of __save_journal_entry,
\* for an invoice of customer "Acme".
InvoiceHandsOver ==
    /\ call.pc = "called" /\ call.transformer = "Invoice"
    /\ call' = [call EXCEPT !.pc = "handed",
                            !.handed = [i \in 1..Len(call.lines) |->
                                           InvoiceJELine(accounts, call.lines[i], "Acme")]]
    /\ UNCHANGED <<accounts, journal_entries, sales_invoices, purchase_invoices, general_ledger,
                   loop, error_log, chart, get, report, fetch, run>>

NextLines == JournalEntryHandsOver \/ LedgerEntryHandsOver \/ InvoiceHandsOver

SpecLines == InitLines /\ [][NextLines]_vars

\* C25: no line of a list handed to the journal-entry builder has neither a
\* debit nor a credit amount other than zero.
C25_NoZeroLineHandedOver ==
    call.pc = "handed" =>
        \A k \in 1..Len(call.handed) :
            \/ call.handed[k].debit_in_account_currency # 0
            \/ call.handed[k].credit_in_account_currency # 0

\* The same of the transactions rebuilt from the General Ledger alone, whose
\* loop drops the lines with every amount zero.
C25_NoZeroLineFromLedgerEntry ==
    (call.pc = "handed" /\ call.transformer = "Ledger") =>
        /\ Len(call.handed) = Len(GLKept(call.lines))
        /\ \A k \in 1..Len(call.handed) :
               \/ call.handed[k].debit_in_account_currency # 0
               \/ call.handed[k].credit_in_account_currency # 0

\* The display name the party of the k-th handed line was inferred from.
PartySourceName(k) ==
    IF call.transformer = "JournalEntry" THEN call.lines[k].Entity.name
    ELSE LET line == GLKept(call.lines)[k]
         IN IF line.vendor # <<>> /\ line.account \in AccountNamesOfType(accounts, "Payable")
            THEN line.vendor ELSE line.customer

\* C26: the party of a line handed over by the JournalEntry transformer or by
\* the rebuilding from the General Ledger is the part of the display name
\* before its first ':', the whole name when it has no ':'.
C26_PartyIsTopSegment ==
    (call.pc = "handed" /\ call.transformer \in {"JournalEntry", "Ledger"}) =>
        \A k \in 1..Len(call.handed) :
            call.handed[k].party # NoValue => call.handed[k].party = PartySourceName(k)[1]

\* What the regular expression gives: the part before the last ':'.
C26_PartyIsAllButLastSegment ==
    (call.pc = "handed" /\ call.transformer \in {"JournalEntry", "Ledger"}) =>
        \A k \in 1..Len(call.handed) :
            call.handed[k].party # NoValue =>
                LET segs == PartySourceName(k)
                IN call.handed[k].party =
                       IF Len(segs) = 1 THEN segs[1]
                       ELSE JoinColon([i \in 1..(Len(segs) - 1) |-> segs[i]])

-----------------------------------------------------------------------------
(* _get_pi_items on its own: the item lines of a purchase-side document    *)
(* (Bill, or VendorCredit with is_return), for every list of at most       *)
(* MaxPurchaseLines detail lines.  call.at is the line the loop is at,     *)
(* call.items the item lines emitted so far.                               *)

MaxPurchaseLines == 3

PurchaseLine(detail_type, item_name, account, qty, unit_price, amount) ==
    [DetailType |-> detail_type, ItemRef |-> [value |-> "I1", name |-> item_name],
     AccountRef |-> account, Qty |-> qty, UnitPrice |-> unit_price, Amount |-> amount,
     TaxCodeRef |-> "NON", Margin |-> 0]

\* An item line of two widgets, one of no widget, an expense on account 3,
\* an expense on an account that was not migrated, and a line of a third
\* detail type.
PurchaseLines ==
    { PurchaseLine("ItemBasedExpenseLineDetail", "Widget", NoValue, 2, 100000, 200000),
      PurchaseLine("ItemBasedExpenseLineDetail", "Widget", NoValue, 0, 100000, 0),
      PurchaseLine("AccountBasedExpenseLineDetail", NoValue, "3", 0, 0, 50000),
      PurchaseLine("AccountBasedExpenseLineDetail", NoValue, "9", 0, 0, 50000),
      PurchaseLine("DescriptionOnly", NoValue, NoValue, 0, 0, 0) }

\* One turn of the loop of _get_pi_items over purchase_invoice["Line"], given
\* the items so far.  The negation of a return stands after the if/elif, so
\* that it runs for a line of any detail type that was not skipped.
PIItemsOfLine(db, purchase_invoice, line, is_return, items) ==
    LET failed == [raised |-> TRUE, items |-> items]
        tax_code == SILineTaxCode(purchase_invoice, line)
        found == ItemsByName(db.items, line.ItemRef.name)
        appended ==
            IF line.DetailType = "ItemBasedExpenseLineDetail"
            THEN Append(items, ItemLine(found[1].name, NoValue, line.Qty, line.UnitPrice,
                                        NoValue, 0))
            ELSE IF line.DetailType = "AccountBasedExpenseLineDetail"
            THEN Append(items, ItemLine(NoValue, line.AccountRef, 1, line.Amount,
                                        _get_account_name_by_id(db.accounts, line.AccountRef), 0))
            ELSE items
    IN IF line.DetailType = "ItemBasedExpenseLineDetail" /\ line.Qty = 0
       THEN [raised |-> FALSE, items |-> items]
       ELSE IF line.DetailType = "ItemBasedExpenseLineDetail"
               /\ (found = <<>> \/ ItemTaxesRaise(db.accounts, db.tax_codes, tax_code))
       THEN failed
       ELSE IF line.DetailType = "AccountBasedExpenseLineDetail"
               /\ (\/ _get_account_name_by_id(db.accounts, line.AccountRef) = Unresolved
                   \/ ItemTaxesRaise(db.accounts, db.tax_codes, tax_code))
       THEN failed
       ELSE IF ~is_return THEN [raised |-> FALSE, items |-> appended]
       ELSE IF appended = <<>> THEN failed
       ELSE [raised |-> FALSE,
             items |-> [appended EXCEPT ![Len(appended)] = Negated(@)]]

\* _get_pi_items(purchase_invoice, is_return) from the items so far.
RECURSIVE PIItemsFrom(_, _, _, _, _)
PIItemsFrom(db, purchase_invoice, lines, is_return, items) ==
    IF lines = <<>> THEN [raised |-> FALSE, items |-> items]
    ELSE LET res == PIItemsOfLine(db, purchase_invoice, Head(lines), is_return, items)
         IN IF res.raised THEN res
            ELSE PIItemsFrom(db, purchase_invoice, Tail(lines), is_return, res.items)

_get_pi_items(db, purchase_invoice, is_return) ==
    PIItemsFrom(db, purchase_invoice, purchase_invoice.Line, is_return, <<>>)

\* The Bill or VendorCredit the lines belong to.
PurchaseDocument(lines) == [Id |-> "60", TxnTaxCodeRef |-> NoValue, Line |-> lines]

InitPurchaseItems ==
    /\ accounts = StoreAccounts
    /\ call \in {[pc |-> "called", lines |-> lines, is_return |-> is_return, at |-> 1,
                  items |-> <<>>] :
                    lines \in SeqUpTo(PurchaseLines, MaxPurchaseLines), is_return \in BOOLEAN}
    /\ journal_entries = Unused /\ sales_invoices = Unused /\ purchase_invoices = Unused
    /\ general_ledger = Unused /\ loop = Unused /\ error_log = Unused
    /\ chart = Unused /\ get = Unused /\ report = Unused /\ fetch = Unused /\ run = Unused

\* One turn of "for line in purchase_invoice['Line']".
GetPIItemsLine ==
    /\ call.pc = "called"
    /\ call.at <= Len(call.lines)
    /\ LET res == PIItemsOfLine(TheDb, PurchaseDocument(call.lines), call.lines[call.at],
                                call.is_return, call.items)
       IN call' = IF res.raised THEN [call EXCEPT !.pc = "raised"]
                  ELSE [call EXCEPT !.at = @ + 1, !.items = res.items]
    /\ UNCHANGED <<accounts, journal_entries, sales_invoices, purchase_invoices, general_ledger,
                   loop, error_log, chart, get, report, fetch, run>>

\* return items
GetPIItemsReturn ==
    /\ call.pc = "called"
    /\ call.at > Len(call.lines)
    /\ call' = [call EXCEPT !.pc = "returned"]
    /\ UNCHANGED <<accounts, journal_entries, sales_invoices, purchase_invoices, general_ledger,
                   loop, error_log, chart, get, report, fetch, run>>

NextPurchaseItems == GetPIItemsLine \/ GetPIItemsReturn

SpecPurchaseItems == InitPurchaseItems /\ [][NextPurchaseItems]_vars

\* The item lines the lines passed so far yield in a document that is not a return.
PurchaseItemsOfNonReturn ==
    PIItemsFrom(TheDb, PurchaseDocument(call.lines), SubSeq(call.lines, 1, call.at - 1),
                FALSE, <<>>)

\* C27: in a return document, the loop has emitted for the lines it passed the
\* item lines they yield in a document that is not a return, each with its
\* quantity negated.
C27_ReturnLinesNegatedOnce ==
    (call.is_return /\ call.pc # "raised") =>
        /\ Len(call.items) = Len(PurchaseItemsOfNonReturn.items)
        /\ \A k \in 1..Len(call.items) :
               call.items[k].qty = -PurchaseItemsOfNonReturn.items[k].qty

\* The same of _get_si_items, whose negation stands inside the branch of the
\* SalesItemLineDetail lines.
C27_SalesReturnLinesNegatedOnce ==
    (call.is_return /\ call.pc # "raised") =>
        LET non_return == SIItemsFrom([TheDb EXCEPT !.tax_codes = ItemTaxCodes],
                                      Invoice("7", "C1", <<>>, call.lines),
                                      SubSeq(call.lines, 1, call.at - 1), FALSE, <<>>)
        IN /\ Len(call.items) = Len(non_return.items)
           /\ \A k \in 1..Len(call.items) : call.items[k].qty = -non_return.items[k].qty

-----------------------------------------------------------------------------
(* The exchange rate on the posting lines of the JournalEntry, Purchase,   *)
(* Deposit, Payment and BillPayment transformers, for transactions in the  *)
(* company currency and in USD at 3.67 on accounts of either currency.     *)
(* call.entry is the source record, call.handed the lines handed to        *)
(* __save_journal_entry.                                                   *)

MaxRateLines == 2

\* purchase["ExchangeRate"] if account_currency != purchase_currency else 1,
\* in hundredths: the factor on the amount.
AmountFactor(same, exchange_rate) == IF same THEN 100 ELSE exchange_rate

\* The exchange rate of the transaction on every line.
LineExchangeRateOfTransaction(same, exchange_rate) == Rate(exchange_rate)

\* purchase["ExchangeRate"] if account_currency == purchase_currency else 1:
\* the "exchange_rate" of the line.
LineExchangeRate(same, exchange_rate) == IF same THEN Rate(exchange_rate) ELSE Rate(100)

\* item_defaults[0].expense_account of the item of an ItemBasedExpenseLineDetail line.
ItemExpenseAccount == "Bank charges - QB - NX"

\* accounts of _save_purchase before "if purchase.get('Credit')": the credit on
\* the paying account, the debits of the lines of amount other than 0, the
\* debits of the tax lines of amount other than 0.
PurchaseAccounts(accts, purchase) ==
    LET account_name == _get_account_name_by_id(accts, purchase.AccountRef)
        same(account) == AccountCurrency(accts, account) = purchase.CurrencyRef
        account_of(line) ==
            IF line.DetailType = "AccountBasedExpenseLineDetail"
            THEN _get_account_name_by_id(accts, line.AccountRef)
            ELSE ItemExpenseAccount
        kept == SelectSeq(purchase.Line, LAMBDA line : line.Amount # 0)
        taxed == SelectSeq(purchase.TaxLine, LAMBDA line : line.Amount # 0)
    IN << Line(account_name, 0,
               Times(purchase.TotalAmt, AmountFactor(same(account_name), purchase.ExchangeRate)),
               LineExchangeRate(same(account_name), purchase.ExchangeRate),
               NoValue, NoValue, NoValue, NoValue) >>
       \o [k \in 1..Len(kept) |->
              Line(account_of(kept[k]),
                   Times(kept[k].Amount,
                         AmountFactor(same(account_of(kept[k])), purchase.ExchangeRate)),
                   0, LineExchangeRate(same(account_of(kept[k])), purchase.ExchangeRate),
                   NoValue, NoValue, NoValue, NoValue)]
       \o [k \in 1..Len(taxed) |->
              Line(TaxAccounts(accts, taxed[k].TaxPercent)[1].name,
                   Times(taxed[k].Amount, purchase.ExchangeRate), 0, NoRate,
                   NoValue, NoValue, NoValue, NoValue)]

\* "if purchase.get('Credit')": a refund has the debits and credits exchanged.
Exchanged(line) ==
    [line EXCEPT !.debit_in_account_currency = line.credit_in_account_currency,
                 !.credit_in_account_currency = line.debit_in_account_currency]

\* Whether the try block of _save_purchase raises before the builder is called.
PurchaseRaises(accts, purchase) ==
    \/ _get_account_name_by_id(accts, purchase.AccountRef) = Unresolved
    \/ \E k \in 1..Len(purchase.Line) :
          /\ purchase.Line[k].DetailType = "AccountBasedExpenseLineDetail"
          /\ _get_account_name_by_id(accts, purchase.Line[k].AccountRef) = Unresolved
    \/ \E k \in 1..Len(purchase.TaxLine) :
          /\ purchase.TaxLine[k].Amount # 0
          /\ TaxAccounts(accts, purchase.TaxLine[k].TaxPercent) = <<>>

\* A deposit without "CashBack".
NoCashBack == [AccountRef |-> NoValue, Amount |-> 0]

\* self.undeposited_funds_account
undeposited_funds_account == "Undeposited Funds - QB - NX"

\* accounts of _save_deposit: the debit on the bank account, a credit per
\* line (on the undeposited funds of a linked line, else on the account of
\* the DepositLineDetail), and the debit of the cash back.
DepositAccounts(accts, deposit) ==
    LET account_name == _get_account_name_by_id(accts, deposit.DepositToAccountRef)
        same(account) == AccountCurrency(accts, account) = deposit.CurrencyRef
        account_of(line) == _get_account_name_by_id(accts, line.AccountRef)
    IN << Line(account_name,
               Times(deposit.TotalAmt, AmountFactor(same(account_name), deposit.ExchangeRate)),
               0, LineExchangeRate(same(account_name), deposit.ExchangeRate),
               NoValue, NoValue, NoValue, NoValue) >>
       \o [k \in 1..Len(deposit.Line) |->
              IF deposit.Line[k].LinkedTxn # <<>>
              THEN Line(undeposited_funds_account, 0, deposit.Line[k].Amount, NoRate,
                        NoValue, NoValue, NoValue, NoValue)
              ELSE Line(account_of(deposit.Line[k]), 0,
                        Times(deposit.Line[k].Amount,
                              AmountFactor(same(account_of(deposit.Line[k])),
                                           deposit.ExchangeRate)),
                        LineExchangeRate(same(account_of(deposit.Line[k])), deposit.ExchangeRate),
                        NoValue, NoValue, NoValue, NoValue)]
       \o (IF deposit.CashBack = NoCashBack THEN <<>>
           ELSE << Line(_get_account_name_by_id(accts, deposit.CashBack.AccountRef),
                        deposit.CashBack.Amount, 0, NoRate,
                        NoValue, NoValue, NoValue, NoValue) >>)

DepositRaises(accts, deposit) ==
    \/ _get_account_name_by_id(accts, deposit.DepositToAccountRef) = Unresolved
    \/ \E k \in 1..Len(deposit.Line) :
          /\ deposit.Line[k].LinkedTxn = <<>>
          /\ _get_account_name_by_id(accts, deposit.Line[k].AccountRef) = Unresolved
    \/ /\ deposit.CashBack # NoCashBack
       /\ _get_account_name_by_id(accts, deposit.CashBack.AccountRef) = Unresolved

RateCurrencies == {"AED", "USD"}

\* JournalEntry records: lines of 10.00 on the bank account (AED) and on the
\* receivable account (USD).
RateJournalEntries ==
    {[Id |-> "1", CurrencyRef |-> currency, ExchangeRate |-> 367,
      TxnDate |-> "2024-01-01", Line |-> lines, TaxLine |-> <<>>] :
        currency \in RateCurrencies,
        lines \in SeqUpTo({JELineDetail(account, 100000, posting_type, NoEntity) :
                              account \in {"1", "2"}, posting_type \in {"Debit", "Credit"}},
                          MaxRateLines)}

\* Purchase records: paid from the bank account or from the USD account, with
\* expense lines of 5.00 or 0.00 on an account of either currency, an item
\* line, and a tax line of 0.50 or none; "Credit" marks a refund.
RatePurchases ==
    {[Id |-> "2", AccountRef |-> account, CurrencyRef |-> currency,
      ExchangeRate |-> 367, TxnDate |-> "2024-01-02", TotalAmt |-> 55000,
      Credit |-> credit, Line |-> lines, TaxLine |-> tax_lines] :
        account \in {"1", "2"}, currency \in RateCurrencies, credit \in BOOLEAN,
        lines \in SeqUpTo({[DetailType |-> "AccountBasedExpenseLineDetail",
                            AccountRef |-> a, Amount |-> amount] :
                               a \in {"2", "3"}, amount \in {0, 50000}}
                          \cup {[DetailType |-> "ItemBasedExpenseLineDetail",
                                 AccountRef |-> NoValue, Amount |-> 50000]},
                          MaxRateLines),
        tax_lines \in {<<>>, <<[Amount |-> 5000, TaxPercent |-> 5, TaxRateRef |-> "1"]>>}}

\* Deposit records: into the bank account or the USD account, with lines
\* linked to a payment and lines on an account of either currency (none has
\* an Entity), with or without cash back.
RateDeposits ==
    {[Id |-> "3", DepositToAccountRef |-> account, CurrencyRef |-> currency,
      ExchangeRate |-> 367, TxnDate |-> "2024-01-03", TotalAmt |-> 50000,
      Line |-> lines, CashBack |-> cash_back] :
        account \in {"1", "2"}, currency \in RateCurrencies,
        lines \in SeqUpTo({[Amount |-> 50000, AccountRef |-> NoValue,
                            LinkedTxn |-> <<[TxnType |-> "Payment", TxnId |-> "30"]>>]}
                          \cup {[Amount |-> 50000, AccountRef |-> a, LinkedTxn |-> <<>>] :
                                   a \in {"2", "4"}},
                          MaxRateLines),
        cash_back \in {NoCashBack, [AccountRef |-> "1", Amount |-> 10000]}}

\* The bill payments of the company, and the same paid in USD.
RateBillPayments ==
    QB_BillPayment \cup
    {[p EXCEPT !.CurrencyRef = "USD", !.ExchangeRate = 367] : p \in QB_BillPayment}

RateEntries ==
    {[transformer |-> "JournalEntry", entry |-> e] : e \in RateJournalEntries}
    \cup {[transformer |-> "Purchase", entry |-> e] : e \in RatePurchases}
    \cup {[transformer |-> "Deposit", entry |-> e] : e \in RateDeposits}
    \cup {[transformer |-> "Payment", entry |-> e] : e \in PaymentRecords("Payment")}
    \cup {[transformer |-> "BillPayment", entry |-> e] : e \in RateBillPayments}

\* The company after the invoice phase; one transformer is called with one record.
InitRates ==
    /\ accounts = AfterInvoicePhase.accounts
    /\ journal_entries = AfterInvoicePhase.journal_entries
    /\ sales_invoices = AfterInvoicePhase.sales_invoices
    /\ purchase_invoices = AfterInvoicePhase.purchase_invoices
    /\ general_ledger = AfterInvoicePhase.general_ledger
    /\ error_log = <<>>
    /\ call \in {[pc |-> "called", transformer |-> e.transformer, entry |-> e.entry,
                  handed |-> <<>>] : e \in RateEntries}
    /\ loop = Unused /\ chart = Unused /\ get = Unused /\ report = Unused /\ fetch = Unused
    /\ run = Unused

\* The lines of the entry with the key that a transformer handed to the
\* builder and the builder inserted.
InsertedLines(db, quickbooks_id) ==
    IF Exists(db.journal_entries, quickbooks_id)
    THEN GetAll(db.journal_entries, quickbooks_id)[1].accounts
    ELSE <<>>

\* What a transformer call leaves in call: the lines handed over, or that
\* the call ended before the builder was reached.
AfterTransformer(raised, lines) ==
    IF raised \/ lines = <<>> THEN [call EXCEPT !.pc = "raised"]
    ELSE [call EXCEPT !.pc = "handed", !.handed = lines]

\* _save_journal_entry up to its call of __save_journal_entry.
RateJournalEntry ==
    /\ call.pc = "called" /\ call.transformer = "JournalEntry"
    /\ LET own == _get_je_accounts(accounts, call.entry.Line, call.entry.CurrencyRef,
                                   call.entry.ExchangeRate)
           tax == JETaxLines(accounts, call.entry.TaxLine)
       IN call' = AfterTransformer(own.raised \/ tax.raised, own.accounts \o tax.accounts)
    /\ UNCHANGED <<accounts, journal_entries, sales_invoices, purchase_invoices, general_ledger,
                   loop, error_log, chart, get, report, fetch, run>>

\* _save_purchase up to its call of __save_journal_entry.
RatePurchase ==
    /\ call.pc = "called" /\ call.transformer = "Purchase"
    /\ LET lines == PurchaseAccounts(accounts, call.entry)
       IN call' = IF PurchaseRaises(accounts, call.entry) THEN [call EXCEPT !.pc = "raised"]
                  ELSE AfterTransformer(FALSE,
                           IF call.entry.Credit
                           THEN [k \in 1..Len(lines) |-> Exchanged(lines[k])] ELSE lines)
    /\ UNCHANGED <<accounts, journal_entries, sales_invoices, purchase_invoices, general_ledger,
                   loop, error_log, chart, get, report, fetch, run>>

\* _save_deposit up to its call of __save_journal_entry.
RateDeposit ==
    /\ call.pc = "called" /\ call.transformer = "Deposit"
    /\ call' = IF DepositRaises(accounts, call.entry) THEN [call EXCEPT !.pc = "raised"]
               ELSE AfterTransformer(FALSE, DepositAccounts(accounts, call.entry))
    /\ UNCHANGED <<accounts, journal_entries, sales_invoices, purchase_invoices, general_ledger,
                   loop, error_log, chart, get, report, fetch, run>>

\* _save_payment(payment), storage accepting the entry.
RatePayment ==
    /\ call.pc = "called" /\ call.transformer = "Payment"
    /\ LET res == _save_payment(TheDb, call.entry, AllAnswersOk)
       IN /\ call' = AfterTransformer(res.raised,
                         InsertedLines(res.db, FormatKey("Payment", call.entry.Id)))
          /\ SetDb(res.db)
    /\ UNCHANGED <<loop, chart, get, report, fetch, run>>

\* _save_bill_payment(bill_payment), storage accepting the entry.
RateBillPayment ==
    /\ call.pc = "called" /\ call.transformer = "BillPayment"
    /\ LET res == _save_bill_payment(TheDb, call.entry, AllAnswersOk)
       IN /\ call' = AfterTransformer(res.raised,
                         InsertedLines(res.db, FormatKey("BillPayment", call.entry.Id)))
          /\ SetDb(res.db)
    /\ UNCHANGED <<loop, chart, get, report, fetch, run>>

NextRates == RateJournalEntry \/ RatePurchase \/ RateDeposit \/ RatePayment \/ RateBillPayment

SpecRates == InitRates /\ [][NextRates]_vars

\* The amounts of the source record behind the lines handed over, in the
\* order of the lines: for a Payment or BillPayment the amount applied to
\* each linked document (capped at what was outstanding) and the total.
SourceAmounts ==
    LET e == call.entry
        amounts(lines) == [k \in 1..Len(lines) |-> lines[k].Amount]
        nonzero(lines) == SelectSeq(amounts(lines), LAMBDA a : a # 0)
        applied(docs, kind) ==
            [k \in 1..Len(e.Line) |->
                LET key == FormatKey(kind, e.Line[k].LinkedTxn[1].TxnId)
                IN IF Exists(docs, key)
                   THEN Capped(e.Line[k].Amount, OutstandingAmount(docs, key))
                   ELSE e.Line[k].Amount]
    IN CASE call.transformer = "JournalEntry" -> amounts(e.Line) \o nonzero(e.TaxLine)
         [] call.transformer = "Purchase" ->
                <<e.TotalAmt>> \o nonzero(e.Line) \o nonzero(e.TaxLine)
         [] call.transformer = "Deposit" ->
                <<e.TotalAmt>> \o amounts(e.Line)
                    \o (IF e.CashBack = NoCashBack THEN <<>> ELSE <<e.CashBack.Amount>>)
         [] call.transformer = "Payment" ->
                applied(AfterInvoicePhase.sales_invoices, "Invoice") \o <<e.TotalAmt>>
         [] call.transformer = "BillPayment" ->
                applied(AfterInvoicePhase.purchase_invoices, "Bill") \o <<e.TotalAmt>>

Posted(line) == line.debit_in_account_currency + line.credit_in_account_currency

\* The line has the source amount times the exchange rate of the transaction.
IsConverted(line, amount) ==
    \/ Posted(line) = Times(amount, call.entry.ExchangeRate)
    \/ Posted(line) = Flt2(Times(amount, call.entry.ExchangeRate))

\* C28: no line handed to the builder by the JournalEntry, Purchase, Deposit,
\* Payment or BillPayment transformer for a transaction at another rate than
\* 1 has both the source amount multiplied by the transaction's exchange
\* rate and exchange_rate set to that rate; the lines that stand for no
\* amount of the source record (exchange gain or loss) carry no exchange_rate.
C28_RateNeverAppliedTwice ==
    (call.pc = "handed" /\ call.entry.ExchangeRate # 100) =>
        \A k \in 1..Len(call.handed) :
            IF k <= Len(SourceAmounts)
            THEN SourceAmounts[k] # 0 =>
                     ~(/\ IsConverted(call.handed[k], SourceAmounts[k])
                       /\ call.handed[k].exchange_rate = Rate(call.entry.ExchangeRate))
            ELSE call.handed[k].exchange_rate = NoRate

\* A Purchase in USD paid from the bank account in AED with an expense on the
\* account in USD: the credit is converted and has the rate 1, the debit is
\* the source amount and has the rate of the transaction.
C28_Witness ==
    /\ call.pc = "handed" /\ call.transformer = "Purchase"
    /\ call.entry.CurrencyRef = "USD" /\ ~call.entry.Credit
    /\ Len(call.handed) = 2
    /\ call.handed[1].credit_in_account_currency = Times(55000, 367)
    /\ call.handed[1].exchange_rate = Rate(100)
    /\ call.handed[2].debit_in_account_currency = 50000
    /\ call.handed[2].exchange_rate = Rate(367)

\* A Payment in USD was handed over with its credit on the receivable account
\* in USD at the rate of the transaction and its debit converted.
C28_PaymentHandedOver ==
    /\ call.pc = "handed" /\ call.transformer = "Payment"
    /\ call.handed[1].exchange_rate = Rate(367)
    /\ call.handed[Len(call.entry.Line) + 1].exchange_rate = Rate(100)

(***************************************************************************)
(* Termination of _migrate: the run as a sequence of steps, with every     *)
(* request of _migrate_entries and _fetch_general_ledger going through     *)
(* _get frame by frame.  call.depth is the number of _get frames on the    *)
(* interpreter's stack; call.bound says whether "response" is bound in the *)
(* frame of the step, which its handler reads.                             *)
(***************************************************************************)

\* The interpreter's recursion limit, in _get frames (sys.getrecursionlimit()
\* less the frames below _get): the call that would exceed it raises
\* RecursionError.
RecursionLimit == 3

\* The largest number of pages a count query announces.
MaxPages == 2

\* The steps of _migrate that send requests.
RequestSteps == {"Account", "TaxRate", "TaxCode", "_fetch_general_ledger"}

NoLiveRun == [pc |-> "idle", status |-> NoValue, step |-> 0, query |-> NoValue, pages |-> 0,
              depth |-> 0, response |-> NoValue, bound |-> FALSE, refreshes |-> 0,
              has_general_ledger |-> FALSE]

LiveStepName == IF call.pc = "running" /\ call.step <= Len(RunSteps) THEN RunSteps[call.step]
                ELSE NoValue

\* The step is over: the next one starts with no response bound.
LiveStepReturns(c) ==
    [c EXCEPT !.pc = "running", !.step = @ + 1, !.query = NoValue, !.pages = 0,
              !.depth = 0, !.response = NoValue, !.bound = FALSE]

\* An exception leaves every _get frame and reaches the handler of the step.
LiveRaises(c) == [c EXCEPT !.pc = "handler", !.depth = 0]

\* _migrate(): set_indicator("In Progress").
LiveMigrate ==
    /\ call.pc = "idle"
    /\ call' = [call EXCEPT !.pc = "running", !.status = "In Progress", !.step = 1]
    /\ UNCHANGED <<accounts, journal_entries, sales_invoices, purchase_invoices, general_ledger, loop, error_log>>
    /\ UNCHANGED <<chart, get, report, fetch, run>>

\* A step that sends no request: _make_root_accounts and _create_fiscal_years
\* log what they catch; _migrate_entries_from_gl has no handler, raises on
\* "entity in self.general_ledger" when the attribute was never assigned and
\* lets an exception of a transformer through.
LiveStep(raises) ==
    /\ call.pc = "running" /\ call.step <= Len(RunSteps)
    /\ LiveStepName \notin RequestSteps
    /\ LiveStepName \notin GLEntities => ~raises
    /\ (LiveStepName \in GLEntities /\ ~call.has_general_ledger) => raises
    /\ call' = IF raises THEN [call EXCEPT !.pc = "raised"] ELSE LiveStepReturns(call)
    /\ UNCHANGED <<accounts, journal_entries, sales_invoices, purchase_invoices, general_ledger, loop, error_log>>
    /\ UNCHANGED <<chart, get, report, fetch, run>>

\* The step calls self._get(...): the count query, then the page queries
\* of "for start_position in range(...)"; the report for the General Ledger.
LiveGetCall ==
    /\ call.pc = "running" /\ call.step <= Len(RunSteps)
    /\ LiveStepName \in RequestSteps
    /\ call' = [call EXCEPT !.pc = "request", !.depth = 1,
                            !.query = IF @ # NoValue THEN @
                                      ELSE IF LiveStepName = "_fetch_general_ledger"
                                           THEN "report" ELSE "count"]
    /\ UNCHANGED <<accounts, journal_entries, sales_invoices, purchase_invoices, general_ledger, loop, error_log>>
    /\ UNCHANGED <<chart, get, report, fetch, run>>

\* response = requests.get(*args, **kwargs) returns: the API has answered.
\* "if response.status_code == 401" sends the frame to _refresh_tokens.
LiveRequestsGet(status_code) ==
    /\ call.pc = "request"
    /\ call' = [call EXCEPT !.response = status_code,
                            !.pc = IF status_code = 401 THEN "refresh" ELSE "return"]
    /\ UNCHANGED <<accounts, journal_entries, sales_invoices, purchase_invoices, general_ledger, loop, error_log>>
    /\ UNCHANGED <<chart, get, report, fetch, run>>

\* requests.get raises (connection refused or reset).
LiveRequestsGetRaises ==
    /\ call.pc = "request"
    /\ call' = LiveRaises(call)
    /\ UNCHANGED <<accounts, journal_entries, sales_invoices, purchase_invoices, general_ledger, loop, error_log>>
    /\ UNCHANGED <<chart, get, report, fetch, run>>

\* self._refresh_tokens(), then "response = self._get(*args, **kwargs)": the
\* token endpoint refuses and the exception leaves; or the new frame exceeds
\* the recursion limit and RecursionError leaves; or the new frame starts.
LiveRefreshTokens(granted) ==
    /\ call.pc = "refresh"
    /\ call' = IF ~granted THEN LiveRaises(call)
               ELSE IF call.depth >= RecursionLimit
                    THEN LiveRaises([call EXCEPT !.refreshes = @ + 1])
                    ELSE [call EXCEPT !.refreshes = @ + 1, !.depth = @ + 1, !.pc = "request"]
    /\ UNCHANGED <<accounts, journal_entries, sales_invoices, purchase_invoices, general_ledger, loop, error_log>>
    /\ UNCHANGED <<chart, get, report, fetch, run>>

\* "return response" through every frame; the step binds response and reads
\* the body: a body that is not the expected JSON raises, the count query's
\* totalCount gives the pages to fetch, the last page ends the step with
\* _preprocess_entries and _save_entries, the report is parsed and
\* self.general_ledger assigned.
LiveGetReturn(usable, entry_pages) ==
    /\ call.pc = "return"
    /\ call.response # 200 => ~usable
    /\ LET c == [call EXCEPT !.bound = TRUE, !.depth = 0]
       IN call' = CASE ~usable -> LiveRaises(c)
                    [] usable /\ call.query = "count" ->
                           IF entry_pages = 0 THEN LiveStepReturns(c)
                           ELSE [c EXCEPT !.pc = "running", !.query = "page",
                                          !.pages = entry_pages]
                    [] usable /\ call.query = "page" ->
                           IF call.pages = 1 THEN LiveStepReturns(c)
                           ELSE [c EXCEPT !.pc = "running", !.pages = @ - 1]
                    [] usable /\ call.query = "report" ->
                           LiveStepReturns([c EXCEPT !.has_general_ledger = TRUE])
    /\ UNCHANGED <<accounts, journal_entries, sales_invoices, purchase_invoices, general_ledger, loop, error_log>>
    /\ UNCHANGED <<chart, get, report, fetch, run>>

\* "except Exception as e: self._log_error(e, response.text)" of
\* _migrate_entries and _fetch_general_ledger: with response bound the
\* exception is logged and the step is over; with response unbound the
\* handler raises and the exception leaves the step.
LiveHandler ==
    /\ call.pc = "handler"
    /\ call' = IF call.bound THEN LiveStepReturns(call) ELSE [call EXCEPT !.pc = "raised"]
    /\ UNCHANGED <<accounts, journal_entries, sales_invoices, purchase_invoices, general_ledger, loop, error_log>>
    /\ UNCHANGED <<chart, get, report, fetch, run>>

\* The steps are done: set_indicator("Complete").
LiveCompletes ==
    /\ call.pc = "running" /\ call.step > Len(RunSteps)
    /\ call' = [call EXCEPT !.pc = "ended", !.status = "Complete"]
    /\ UNCHANGED <<accounts, journal_entries, sales_invoices, purchase_invoices, general_ledger, loop, error_log>>
    /\ UNCHANGED <<chart, get, report, fetch, run>>

\* "except Exception as e" of _migrate: set_indicator("Failed").
LiveExcept ==
    /\ call.pc = "raised"
    /\ call' = [call EXCEPT !.pc = "ended", !.status = "Failed"]
    /\ UNCHANGED <<accounts, journal_entries, sales_invoices, purchase_invoices, general_ledger, loop, error_log>>
    /\ UNCHANGED <<chart, get, report, fetch, run>>

InitTermination ==
    /\ call = NoLiveRun
    /\ accounts = <<>> /\ journal_entries = {} /\ sales_invoices = {} /\ purchase_invoices = {}
    /\ general_ledger = <<>> /\ error_log = <<>>
    /\ loop = Unused /\ chart = Unused /\ get = Unused /\ report = Unused /\ fetch = Unused
    /\ run = Unused

\* The steps the code takes by itself.
LiveProgram ==
    \/ \E raises \in BOOLEAN : LiveStep(raises)
    \/ LiveGetCall
    \/ \E usable \in BOOLEAN, entry_pages \in 0..MaxPages : LiveGetReturn(usable, entry_pages)
    \/ LiveHandler
    \/ LiveCompletes
    \/ LiveExcept

\* The steps that wait for an answer from outside: the API's answer to
\* requests.get and the token endpoint's answer to oauth.refresh_token.
LiveAnswered ==
    \/ \E status_code \in StatusCodes : LiveRequestsGet(status_code)
    \/ LiveRequestsGetRaises
    \/ \E granted \in BOOLEAN : LiveRefreshTokens(granted)

NextTermination ==
    \/ LiveMigrate
    \/ \E raises \in BOOLEAN : LiveStep(raises)
    \/ LiveGetCall
    \/ \E status_code \in StatusCodes : LiveRequestsGet(status_code)
    \/ LiveRequestsGetRaises
    \/ \E granted \in BOOLEAN : LiveRefreshTokens(granted)
    \/ \E usable \in BOOLEAN, entry_pages \in 0..MaxPages : LiveGetReturn(usable, entry_pages)
    \/ LiveHandler
    \/ LiveCompletes
    \/ LiveExcept

\* The worker runs the job's code to its end; requests.get is called with no
\* timeout, so nothing in the code makes a request end.
SpecTermination ==
    InitTermination /\ [][NextTermination]_vars /\ WF_vars(LiveMigrate) /\ WF_vars(LiveProgram)

\* The same with an API and a token endpoint that answer every request.
SpecTerminationAnswered == SpecTermination /\ WF_vars(LiveAnswered)

\* C29: every run of _migrate terminates: from status "In Progress" it
\* reaches status "Complete" or "Failed", whatever the API does.
C29_EveryRunTerminates ==
    (call.status = "In Progress") ~> (call.status \in {"Complete", "Failed"})

\* With every request answered the run ends, an API answering 401 after
\* every refresh included: RecursionError ends the chain of _get frames.
C29_AnsweredRunTerminates ==
    (call.pc # "idle") ~> (call.pc = "ended" /\ call.status \in {"Complete", "Failed"})

\* A chain of _get frames at the recursion limit, every request answered 401.
C29_RecursionLimitReached ==
    call.pc = "refresh" /\ call.depth = RecursionLimit /\ call.refreshes = RecursionLimit - 1

-----------------------------------------------------------------------------
(* Runs in flight together.  migrate() enqueues _migrate on the "long"     *)
(* queue whenever it is called; each job walks the same source records and *)
(* hands each to __save_journal_entry, whose frappe.db.exists test and     *)
(* je.insert() are two statements.  call.runs holds the position of each   *)
(* job, call.entries the Journal Entry table, read here as every job sees  *)
(* it at once; call.together says that two jobs were in flight at one      *)
(* time, and call.raced holds the keys for which a job passed the test     *)
(* while another job stood between its test and its insert.                *)

\* The largest number of jobs enqueued.
MaxWriters == 2

\* The number of source records of the company.
MaxRecords == 2

Writers == 1..MaxWriters

\* quickbooks_id of source record number i: "Journal Entry - <Id>".
WriterKey(i) == FormatKey("Journal Entry", ToString(i))

\* The test of the builder as it would be with no test at all.
JournalEntryIsAlwaysNew(docs, quickbooks_id) == TRUE

\* "if not frappe.db.exists({"doctype": "Journal Entry", "quickbooks_id": ..})"
JournalEntryIsNew(docs, quickbooks_id) == ~Exists(docs, quickbooks_id)

InFlight(w) == call.runs[w].pc \in {"exists", "insert"}

\* migrate(): frappe.enqueue_doc(..., "_migrate", queue="long"), with no look
\* at the status or at the queue; a worker takes the job.
WriterMigrate(w) ==
    /\ call.runs[w].pc = "idle"
    /\ call' = [call EXCEPT !.runs[w] = [pc |-> "exists", index |-> 1],
                            !.together = @ \/ \E v \in Writers \ {w} : InFlight(v)]
    /\ UNCHANGED <<accounts, journal_entries, sales_invoices, purchase_invoices, general_ledger, loop, error_log>>
    /\ UNCHANGED <<chart, get, report, fetch, run>>

\* __save_journal_entry up to the test: a key that exists is left alone.
WriterExists(w) ==
    /\ call.runs[w].pc = "exists"
    /\ call.runs[w].index <= MaxRecords
    /\ LET key == WriterKey(call.runs[w].index)
       IN call' = IF JournalEntryIsNew(call.entries, key)
                  THEN [call EXCEPT !.runs[w].pc = "insert",
                                    !.raced = IF \E v \in Writers \ {w} :
                                                     /\ call.runs[v].pc = "insert"
                                                     /\ call.runs[v].index = call.runs[w].index
                                               THEN @ \cup {key} ELSE @]
                  ELSE [call EXCEPT !.runs[w].index = @ + 1]
    /\ UNCHANGED <<accounts, journal_entries, sales_invoices, purchase_invoices, general_ledger, loop, error_log>>
    /\ UNCHANGED <<chart, get, report, fetch, run>>

\* je.insert() and je.submit() of the job that passed the test.
WriterInsert(w) ==
    /\ call.runs[w].pc = "insert"
    /\ call' = [call EXCEPT !.entries = Insert(@, [quickbooks_id |-> WriterKey(call.runs[w].index),
                                                   nth |-> 0, by |-> w]),
                            !.runs[w] = [pc |-> "exists", index |-> call.runs[w].index + 1]]
    /\ UNCHANGED <<accounts, journal_entries, sales_invoices, purchase_invoices, general_ledger, loop, error_log>>
    /\ UNCHANGED <<chart, get, report, fetch, run>>

\* The records are done: set_indicator("Complete") and frappe.db.commit().
WriterEnds(w) ==
    /\ call.runs[w].pc = "exists"
    /\ call.runs[w].index > MaxRecords
    /\ call' = [call EXCEPT !.runs[w].pc = "ended"]
    /\ UNCHANGED <<accounts, journal_entries, sales_invoices, purchase_invoices, general_ledger, loop, error_log>>
    /\ UNCHANGED <<chart, get, report, fetch, run>>

InitWriters ==
    /\ call = [runs |-> [w \in Writers |-> [pc |-> "idle", index |-> 0]],
               entries |-> {}, together |-> FALSE, raced |-> {}]
    /\ accounts = <<>> /\ journal_entries = {} /\ sales_invoices = {} /\ purchase_invoices = {}
    /\ general_ledger = <<>> /\ error_log = <<>>
    /\ loop = Unused /\ chart = Unused /\ get = Unused /\ report = Unused /\ fetch = Unused
    /\ run = Unused

NextWriters ==
    \/ \E w \in Writers : WriterMigrate(w)
    \/ \E w \in Writers : WriterExists(w)
    \/ \E w \in Writers : WriterInsert(w)
    \/ \E w \in Writers : WriterEnds(w)

SpecWriters == InitWriters /\ [][NextWriters]_vars

\* C30: the key is unique as long as one job writes at a time; two records
\* with one key are persisted only by two jobs in flight together, both of
\* which passed the existence test for that record before either inserted.
C30_DuplicateOnlyByInterleaving ==
    /\ \A i \in 1..MaxRecords :
           Cardinality(WithKey(call.entries, WriterKey(i))) > 1 =>
               /\ call.together
               /\ WriterKey(i) \in call.raced
               /\ \A d, e \in WithKey(call.entries, WriterKey(i)) : d # e => d.by # e.by
    /\ ~call.together =>
           \A i \in 1..MaxRecords : Cardinality(WithKey(call.entries, WriterKey(i))) <= 1

\* Two jobs ended, and the table holds two records with the key of source
\* record 1, one by each job.
C30_Witness ==
    /\ \A w \in Writers : call.runs[w].pc = "ended"
    /\ {d.by : d \in WithKey(call.entries, WriterKey(1))} = {1, 2}
    /\ WriterKey(1) \in call.raced

====
